---------------------------- MODULE Spec2Model ----------------------------
(***************************************************************************)
(* A model of the Playback archive: the segmentation engine and the        *)
(* attribution interval builder (scripts/build_chunks_from_temp.py), the   *)
(* OCR worker pool (scripts/ocr_processor.py), the metadata store          *)
(* (lib/database.py) and the retention engine                              *)
(* (scripts/cleanup_old_chunks.py).                                        *)
(*                                                                         *)
(* Timestamps are integers.  In the retention part one unit is one day,    *)
(* so that timedelta(days=n) is n units.                                   *)
(***************************************************************************)
EXTENDS Integers, Sequences, FiniteSets, TLC

VARIABLES
    \* ---- segmentation engine / attribution interval builder
    frames,          \* the day's frame list handed to the two pure functions
    maxFrames,       \* max_frames_per_segment
    groups,          \* result of group_frames_by_count
    appsegs,         \* result of build_appsegments_for_day
    segPc,           \* "start" | "grouped" | "built"
    \* ---- OCR worker pool (perform_ocr_batch)
    ocrPaths,        \* image_paths
    numWorkers,      \* num_workers after clamping
    taskQ,           \* task_queue
    resultQ,         \* result_queue
    wState,          \* per worker: "new" | "get" | "ocr" | "exited" | "terminated"
    wTask,           \* per worker: the image path it is processing
    oPc,             \* the orchestrator's position in perform_ocr_batch
    oIdx,            \* the orchestrator's loop counter
    ocrResults,      \* results, the list perform_ocr_batch returns
    \* ---- metadata store and on-disk trees
    db,              \* the content of the catalog file meta.sqlite3
    videoFiles,      \* the video files present under chunks/
    tempFiles,       \* the raw capture files present under temp/
    segCount,        \* how many segment ids process_day has generated
    lastOp,          \* the last operation that ran, its arguments and outcome
    \* ---- a recording sweep (cleanup_old_recordings) in progress
    swPc,            \* "idle" | "file" | "row" | "crashed"
    swPolicy,        \* its policy
    swDryRun,        \* its dry_run flag
    swItems,         \* old_segments, the (segment_id, video_path) pairs
    swIdx,           \* the index of the item the for loop is at
    swCount,         \* deleted_count
    \* ---- the temp/YYYYMM/DD directory of one day and a process_day run on it
    dayTemp,         \* the frame files present in the day's directory
    dayCaptured,     \* how many frames record_screen has written for the day
    pdPc,            \* "idle" | "segment" | "appsegments" | "cleanup" |
                     \* "completed" | "failed" | "killed"
    pdFrames,        \* frames, the list load_frames_for_day returned
    pdSegments,      \* segments, the groups of this run
    pdApps,          \* appsegments, the intervals of this run
    pdIdx,           \* idx, the group the for loop is at
    pdKilled,        \* a run of the day was killed before it completed
    pdFailed,        \* a run of the day ended with an exception
    \* ---- connections to the catalog, statement by statement
    cxProg,          \* per process: the statements its store method has left
    cxWork,          \* per process: what its open transaction has written
    cxDone,          \* per process: the statements its current or last call
                     \* has executed, then "raised" if the call raised
    rdSeen           \* the catalog a reader saw last

segVars == <<frames, maxFrames, groups, appsegs, segPc>>

ocrVars == <<ocrPaths, numWorkers, taskQ, resultQ, wState, wTask, oPc, oIdx, ocrResults>>

storeVars == <<db, videoFiles, tempFiles, segCount, lastOp>>

sweepVars == <<swPc, swPolicy, swDryRun, swItems, swIdx, swCount>>

dayVars == <<dayTemp, dayCaptured, pdPc, pdFrames, pdSegments, pdApps, pdIdx, pdKilled, pdFailed>>

txnVars == <<cxProg, cxWork, cxDone, rdSeen>>

vars == <<segVars, ocrVars, storeVars, sweepVars, dayVars, txnVars>>

\* Python's None
None == "None"

(***************************************************************************)
(* Bounds                                                                  *)
(***************************************************************************)
\* longest frame list given to group_frames_by_count
MaxFrames == 4
\* largest max_frames_per_segment tried (the smallest is -1)
MaxPer == 3
\* longest frame list given to build_appsegments_for_day
MaxAppFrames == 4
\* largest timestamp step between two consecutive frames (0 is a tie)
MaxStep == 1
\* most image paths in one OCR batch
MaxPaths == 3
\* largest requested num_workers and largest cpu_count
MaxWorkers == 2
\* segment timestamps given to the store API are 1..MaxTs
MaxTs == 3
\* most rows of the ocr_text table
MaxOcrRows == 1
\* most AUTOINCREMENT ids drawn for ocr_text where rows are deleted again
MaxOcrIds == 3
\* most records in one insert_ocr_batch call
MaxBatch == 2
\* datetime.now() during the retention runs, in days
NowTs == 100
\* most segments process_day creates in the retention runs
MaxSegments == 2

Widths == {1, 2}
Heights == {1, 2}
AppIds == {None, "a", "b"}

(***************************************************************************)
(* FrameInfo                                                               *)
(***************************************************************************)
FrameInfo(path, ts, app_id, width, height) ==
    [path |-> path, ts |-> ts, app_id |-> app_id, width |-> width, height |-> height]

\* load_frames_for_day ends with frames.sort(key=ts): the list is
\* non-decreasing in ts; ties are allowed.
SortedByTs(fs) == \A i \in 1..(Len(fs) - 1) : fs[i].ts <= fs[i + 1].ts

\* Frame lists for the segmentation engine: every size pattern; the
\* timestamps are non-decreasing with a tie between frames 2k and 2k+1.
GroupInputs(n) ==
    { [i \in 1..n |-> FrameInfo(i, i \div 2, None, sz[i][1], sz[i][2])] :
      sz \in [1..n -> Widths \X Heights] }

\* Frame lists for the interval builder: every app_id pattern and every
\* pattern of timestamp steps (first timestamp 10); steps[k] is the step
\* from frame k - 1 to frame k.
TsOf(steps, i) ==
    LET S[k \in 0..i] == IF k <= 1 THEN 10 ELSE S[k - 1] + steps[k] IN S[i]

AppInputs(n) ==
    { [i \in 1..n |-> FrameInfo(i, TsOf(st, i), ap[i], 1, 1)] :
      ap \in [1..n -> AppIds], st \in [2..n -> 0..MaxStep] }

(***************************************************************************)
(* group_frames_by_count                                                   *)
(***************************************************************************)
frame_size(frame) == <<frame.width, frame.height>>

reached_max_gt(current_segment, max_frames_per_segment) ==
    Len(current_segment) > max_frames_per_segment

reached_max(current_segment, max_frames_per_segment) ==
    Len(current_segment) >= max_frames_per_segment

size_changed(current_size, fsize) ==
    current_size # None /\ fsize # current_size

\* The for loop of group_frames_by_count from frame i on; st is the loop
\* state (segments, current_segment, current_size).
RECURSIVE GroupLoop(_, _, _, _)
GroupLoop(fs, i, max_frames_per_segment, st) ==
    IF i > Len(fs) THEN st
    ELSE LET frame == fs[i]
             fsize == frame_size(frame)
         IN  IF st.current_segment = <<>>
             THEN GroupLoop(fs, i + 1, max_frames_per_segment,
                      [segments |-> st.segments,
                       current_segment |-> <<frame>>,
                       current_size |-> fsize])
             ELSE IF \/ reached_max(st.current_segment, max_frames_per_segment)
                     \/ size_changed(st.current_size, fsize)
                  THEN GroupLoop(fs, i + 1, max_frames_per_segment,
                           [segments |-> Append(st.segments, st.current_segment),
                            current_segment |-> <<frame>>,
                            current_size |-> fsize])
                  ELSE GroupLoop(fs, i + 1, max_frames_per_segment,
                           [segments |-> st.segments,
                            current_segment |-> Append(st.current_segment, frame),
                            current_size |-> st.current_size])

final_flush_missing(st) == st.segments

\* "if current_segment: segments.append(current_segment)"
final_flush(st) ==
    IF st.current_segment # <<>>
    THEN Append(st.segments, st.current_segment)
    ELSE st.segments

\* the function without its "if max_frames_per_segment <= 0" branch
group_frames_by_count_loop_only(fs, max_frames_per_segment) ==
    final_flush(GroupLoop(fs, 1, max_frames_per_segment,
        [segments |-> <<>>, current_segment |-> <<>>, current_size |-> None]))

group_frames_by_count(fs, max_frames_per_segment) ==
    IF max_frames_per_segment <= 0
    THEN (IF fs # <<>> THEN <<fs>> ELSE <<>>)
    ELSE final_flush(GroupLoop(fs, 1, max_frames_per_segment,
             [segments |-> <<>>, current_segment |-> <<>>, current_size |-> None]))

(***************************************************************************)
(* build_appsegments_for_day                                               *)
(***************************************************************************)
\* SQL-like comparison in which None equals nothing, not even None
same_app_none_unequal(app_id, current_app) ==
    app_id # None /\ app_id = current_app

\* "frame.app_id == current_app": Python's ==, None == None is True
same_app(app_id, current_app) == app_id = current_app

\* "segments.append((current_app, current_start, last_ts))" on an app switch
close_interval(st, frame) == <<st.current_app, st.current_start, st.last_ts>>

RECURSIVE AppLoop(_, _, _)
AppLoop(fs, i, st) ==
    IF i > Len(fs) THEN st
    ELSE LET frame == fs[i] IN
         IF same_app(frame.app_id, st.current_app)
         THEN AppLoop(fs, i + 1, [st EXCEPT !.last_ts = frame.ts])
         ELSE AppLoop(fs, i + 1,
                  [segments |-> Append(st.segments, close_interval(st, frame)),
                   current_app |-> frame.app_id,
                   current_start |-> frame.ts,
                   last_ts |-> frame.ts])

build_appsegments_for_day(fs) ==
    IF fs = <<>> THEN <<>>
    ELSE LET st == AppLoop(fs, 2,
                       [segments |-> <<>>,
                        current_app |-> fs[1].app_id,
                        current_start |-> fs[1].ts,
                        last_ts |-> fs[1].ts])
         IN  Append(st.segments, <<st.current_app, st.current_start, st.last_ts>>)

\* nothing has been computed yet
SegIdle ==
    /\ groups = <<>>
    /\ appsegs = <<>>
    /\ segPc = "start"

(***************************************************************************)
(* perform_ocr_batch and _worker_process_ocr                               *)
(***************************************************************************)
Min(a, b) == IF a <= b THEN a ELSE b
Max(a, b) == IF a >= b THEN a ELSE b

\* hard cap on the worker count
WorkerCap == 8

\* "num_workers = max(1, min(num_workers, mp.cpu_count(), 8))"
ClampWorkers(num_workers, cpu_count) ==
    Max(1, Min(Min(num_workers, cpu_count), WorkerCap))

\* the i-th image path
ImagePath(i) == <<"frame", i>>

\* a worker that holds no path
NoPath == <<>>

OCRResult(frame_path, success) == [frame_path |-> frame_path, success |-> success]

Workers == 1..numWorkers

\* no batch is running
OcrIdle ==
    /\ ocrPaths = <<>>
    /\ numWorkers = 1
    /\ taskQ = <<>>
    /\ resultQ = <<>>
    /\ wState = <<"new">>
    /\ wTask = <<NoPath>>
    /\ oPc = "idle"
    /\ oIdx = 1
    /\ ocrResults = <<>>

\* "if not image_paths: return []"
ReturnEmpty ==
    /\ oPc = "start"
    /\ ocrPaths = <<>>
    /\ oPc' = "done"
    /\ UNCHANGED <<ocrPaths, numWorkers, taskQ, resultQ, wState, wTask, oIdx, ocrResults, segVars, storeVars, sweepVars, dayVars, txnVars>>

\* the loop that creates and starts the worker processes
StartWorkers ==
    /\ oPc = "start"
    /\ ocrPaths # <<>>
    /\ wState' = [w \in Workers |-> "get"]
    /\ oPc' = "submit"
    /\ oIdx' = 1
    /\ UNCHANGED <<ocrPaths, numWorkers, taskQ, resultQ, wTask, ocrResults, segVars, storeVars, sweepVars, dayVars, txnVars>>

\* one iteration of "for image_path in image_paths: task_queue.put(image_path)"
SubmitTask ==
    /\ oPc = "submit"
    /\ taskQ' = Append(taskQ, ocrPaths[oIdx])
    /\ IF oIdx = Len(ocrPaths)
       THEN oPc' = "stop" /\ oIdx' = 1
       ELSE oPc' = oPc /\ oIdx' = oIdx + 1
    /\ UNCHANGED <<ocrPaths, numWorkers, resultQ, wState, wTask, ocrResults, segVars, storeVars, sweepVars, dayVars, txnVars>>

\* one iteration of "for _ in range(num_workers): task_queue.put(None)"
SendStop ==
    /\ oPc = "stop"
    /\ taskQ' = Append(taskQ, None)
    /\ IF oIdx = numWorkers
       THEN oPc' = "collect" /\ oIdx' = 1
       ELSE oPc' = oPc /\ oIdx' = oIdx + 1
    /\ UNCHANGED <<ocrPaths, numWorkers, resultQ, wState, wTask, ocrResults, segVars, storeVars, sweepVars, dayVars, txnVars>>

\* the collect loop runs len(image_paths) times
CollectAdvance ==
    IF oIdx = Len(ocrPaths)
    THEN oPc' = "join" /\ oIdx' = 1
    ELSE oPc' = oPc /\ oIdx' = oIdx + 1

\* "result = result_queue.get(timeout=timeout + 5.0); results.append(result)"
CollectResult ==
    /\ oPc = "collect"
    /\ resultQ # <<>>
    /\ ocrResults' = Append(ocrResults, Head(resultQ))
    /\ resultQ' = Tail(resultQ)
    /\ CollectAdvance
    /\ UNCHANGED <<ocrPaths, numWorkers, taskQ, wState, wTask, segVars, storeVars, sweepVars, dayVars, txnVars>>

\* result_queue.get raises queue.Empty after timeout + 5 s without a
\* result; the except clause logs it and the iteration is used up
CollectTimeout ==
    /\ oPc = "collect"
    /\ resultQ = <<>>
    /\ CollectAdvance
    /\ UNCHANGED <<ocrPaths, numWorkers, taskQ, resultQ, wState, wTask, ocrResults, segVars, storeVars, sweepVars, dayVars, txnVars>>

\* the join loop runs once per worker
JoinAdvance ==
    IF oIdx = numWorkers
    THEN oPc' = "done" /\ oIdx' = oIdx
    ELSE oPc' = oPc /\ oIdx' = oIdx + 1

\* "worker.join(timeout=10.0)" on a worker that has exited
JoinExited ==
    /\ oPc = "join"
    /\ wState[oIdx] = "exited"
    /\ JoinAdvance
    /\ UNCHANGED <<ocrPaths, numWorkers, taskQ, resultQ, wState, wTask, ocrResults, segVars, storeVars, sweepVars, dayVars, txnVars>>

\* "worker.join()" without a timeout on a worker that is still running:
\* the orchestrator waits
JoinWithoutTimeout ==
    /\ oPc = "join"
    /\ wState[oIdx] \in {"get", "ocr"}
    /\ UNCHANGED vars

\* the join times out, "if worker.is_alive(): worker.terminate()"
JoinTerminate ==
    /\ oPc = "join"
    /\ wState[oIdx] \in {"get", "ocr"}
    /\ wState' = [wState EXCEPT ![oIdx] = "terminated"]
    /\ JoinAdvance
    /\ UNCHANGED <<ocrPaths, numWorkers, taskQ, resultQ, wTask, ocrResults, segVars, storeVars, sweepVars, dayVars, txnVars>>

\* a get that returns the head of the queue and leaves it there
WorkerGetTask_no_pop(w) ==
    /\ wState[w] = "get"
    /\ taskQ # <<>>
    /\ Head(taskQ) # None
    /\ wTask' = [wTask EXCEPT ![w] = Head(taskQ)]
    /\ wState' = [wState EXCEPT ![w] = "ocr"]
    /\ UNCHANGED <<taskQ, ocrPaths, numWorkers, resultQ, oPc, oIdx, ocrResults, segVars, storeVars, sweepVars, dayVars, txnVars>>

\* _worker_process_ocr: "image_path = task_queue.get(timeout=1.0)" returns
\* a path.  (A get that times out on an empty queue raises queue.Empty,
\* the except clause continues the loop: no state changes.)
WorkerGetTask(w) ==
    /\ wState[w] = "get"
    /\ taskQ # <<>>
    /\ Head(taskQ) # None
    /\ wTask' = [wTask EXCEPT ![w] = Head(taskQ)]
    /\ wState' = [wState EXCEPT ![w] = "ocr"]
    /\ taskQ' = Tail(taskQ)
    /\ UNCHANGED <<ocrPaths, numWorkers, resultQ, oPc, oIdx, ocrResults, segVars, storeVars, sweepVars, dayVars, txnVars>>

\* "if image_path is None: break"
WorkerGetStop(w) ==
    /\ wState[w] = "get"
    /\ taskQ # <<>>
    /\ Head(taskQ) = None
    /\ wState' = [wState EXCEPT ![w] = "exited"]
    /\ taskQ' = Tail(taskQ)
    /\ UNCHANGED <<ocrPaths, numWorkers, resultQ, wTask, oPc, oIdx, ocrResults, segVars, storeVars, sweepVars, dayVars, txnVars>>

\* "result = perform_ocr_sync(image_path); result_queue.put(result)":
\* perform_ocr_sync catches every exception and returns a result with
\* success False.  A worker that hangs in perform_ocr_sync never takes
\* this step.
WorkerPutResult(w) ==
    /\ wState[w] = "ocr"
    /\ \E success \in BOOLEAN :
          resultQ' = Append(resultQ, OCRResult(wTask[w], success))
    /\ wState' = [wState EXCEPT ![w] = "get"]
    /\ wTask' = [wTask EXCEPT ![w] = NoPath]
    /\ UNCHANGED <<ocrPaths, numWorkers, taskQ, oPc, oIdx, ocrResults, segVars, storeVars, sweepVars, dayVars, txnVars>>

(***************************************************************************)
(* The metadata store: DatabaseManager                                     *)
(*                                                                         *)
(* A table is the sequence of its rows in rowid order.  Of a segment row   *)
(* the model keeps id, date, start_ts, end_ts and video_path; the other    *)
(* columns (frame_count, fps, width, height, file_size_bytes) are stored   *)
(* and returned like these and no statement reads them.  A date is a day   *)
(* number standing for its 'YYYY-MM-DD' text, whose text order is the      *)
(* order of the days.                                                      *)
(***************************************************************************)
SCHEMA_VERSION == "1.1"

\* a generator whose every draw gives the same id
generate_segment_id_repeated(k) == "s1"

\* generate_segment_id: the k-th id drawn from os.urandom(10); no two
\* draws give the same id
generate_segment_id(k) ==
    <<"s1", "s2", "s3", "s4", "s5", "s6", "s7", "s8", "s9", "s10", "s11", "s12">>[k]

SegIds == {generate_segment_id(1), generate_segment_id(2)}
Dates == {1, 2}
Timestamps == 1..MaxTs

Range(s) == {s[i] : i \in 1..Len(s)}

\* the catalog file before initialize: no table, journal mode DELETE.
\* err is set while a statement of the running transaction has raised.
EmptyDb ==
    [journal_mode |-> "delete", objects |-> <<>>, schema_version |-> <<>>,
     segments |-> <<>>, appsegments |-> <<>>,
     ocr_text |-> <<>>, ocr_search |-> <<>>, ocr_seq |-> 0, err |-> FALSE]

\* the tables and indexes initialize creates after schema_version
SchemaObjects ==
    <<"segments", "idx_segments_date", "idx_segments_start_ts", "idx_segments_end_ts",
      "appsegments", "idx_appsegments_date", "idx_appsegments_app_id",
      "idx_appsegments_start_ts", "idx_appsegments_end_ts",
      "ocr_text", "idx_ocr_timestamp", "idx_ocr_segment", "ocr_search">>

\* CREATE TABLE / INDEX / VIRTUAL TABLE IF NOT EXISTS
create_if_not_exists(d, name) ==
    IF d.err \/ name \in Range(d.objects) THEN d
    ELSE [d EXCEPT !.objects = Append(@, name)]

\* INSERT without OR IGNORE into a table without the primary key
insert_version_always(d, version) ==
    IF d.err THEN d
    ELSE [d EXCEPT !.schema_version = Append(@, [version |-> version])]

\* INSERT OR IGNORE INTO schema_version (version): version is the primary key
insert_or_ignore_version(d, version) ==
    IF d.err \/ (\E i \in 1..Len(d.schema_version) : d.schema_version[i].version = version)
    THEN d
    ELSE [d EXCEPT !.schema_version = Append(@, [version |-> version])]

RECURSIVE CreateAll(_, _)
CreateAll(d, names) ==
    IF names = <<>> THEN d
    ELSE CreateAll(create_if_not_exists(d, Head(names)), Tail(names))

\* an except clause that re-raises without conn.rollback(), followed by a
\* commit of what the transaction has written
Rollback_missing(before, after) == after

\* _get_connection: a statement that raises rolls the open transaction
\* back; the result carries err so that the caller sees the exception
Rollback(before, after) ==
    IF after.err THEN [before EXCEPT !.err = TRUE] ELSE after

\* DatabaseManager.initialize.  PRAGMA journal_mode and the first CREATE
\* TABLE run before the INSERT opens the transaction that commit() ends.
initialize(d) ==
    LET d0 == [d EXCEPT !.journal_mode = "wal"]
        d1 == create_if_not_exists(d0, "schema_version")
        d2 == insert_or_ignore_version(d1, SCHEMA_VERSION)
        d3 == CreateAll(d2, SchemaObjects)
    IN  Rollback(d1, d3)

HasTable(d, name) == name \in Range(d.objects)

SegmentRow(id, date, start_ts, end_ts, video_path) ==
    [id |-> id, date |-> date, start_ts |-> start_ts, end_ts |-> end_ts,
     video_path |-> video_path]

\* the row process_day writes: frame_count is stored with it
SegmentRowOfGroup(id, date, start_ts, end_ts, video_path, frame_count) ==
    [id |-> id, date |-> date, start_ts |-> start_ts, end_ts |-> end_ts,
     video_path |-> video_path, frame_count |-> frame_count]

\* process_day stores a segment's video as chunks/YYYYMM/DD/<segment_id>.mp4
VideoPath(id) == <<"chunks", id>>

WithoutId(rows, id) == LET Keep(r) == r.id # id IN SelectSeq(rows, Keep)

\* INSERT INTO segments without OR REPLACE and without the primary key
insert_segment_append(d, row) ==
    [d EXCEPT !.segments = Append(@, row)]

\* INSERT OR REPLACE INTO segments: a row with the same id is deleted and
\* the new row gets a new, largest rowid
insert_segment(d, row) ==
    [d EXCEPT !.segments = Append(WithoutId(@, row.id), row)]

\* a connection closed without commit(): the DELETE is rolled back
delete_segment_no_commit(d, segment_id) == d

\* DELETE FROM segments WHERE id = ?  (no connection sets PRAGMA
\* foreign_keys, so no ON DELETE CASCADE action runs)
delete_segment(d, segment_id) ==
    [d EXCEPT !.segments = WithoutId(@, segment_id)]

AppSegmentRow(id, app_id, date, start_ts, end_ts) ==
    [id |-> id, app_id |-> app_id, date |-> date, start_ts |-> start_ts,
     end_ts |-> end_ts]

\* INSERT OR REPLACE INTO appsegments
insert_appsegment(d, row) ==
    [d EXCEPT !.appsegments = Append(WithoutId(@, row.id), row)]

\* DELETE FROM appsegments WHERE id = ?
delete_appsegment(d, appsegment_id) ==
    [d EXCEPT !.appsegments = WithoutId(@, appsegment_id)]

\* insert_ocr_text: INSERT INTO ocr_text (id is AUTOINCREMENT), then
\* INSERT INTO ocr_search with rowid = cursor.lastrowid, one transaction
insert_ocr_text(d, frame_path, timestamp, text_content, segment_id) ==
    LET ocr_id == d.ocr_seq + 1 IN
    [d EXCEPT !.ocr_seq = ocr_id,
              !.ocr_text = Append(@, [id |-> ocr_id, frame_path |-> frame_path,
                                      segment_id |-> segment_id,
                                      timestamp |-> timestamp,
                                      text_content |-> text_content]),
              !.ocr_search = Append(@, [rowid |-> ocr_id,
                                        text_content |-> text_content,
                                        segment_id |-> segment_id,
                                        timestamp |-> timestamp])]

\* one record of an insert_ocr_batch call; confidence and language are
\* stored like text_content and no statement reads them
OcrRecord(frame_path, timestamp, text_content, segment_id) ==
    [frame_path |-> frame_path, timestamp |-> timestamp,
     text_content |-> text_content, segment_id |-> segment_id]

\* cursor.executemany("INSERT INTO ocr_text ..."), records i..N: the
\* statement for record fail_at raises (fail_at = 0: none does), and no
\* statement runs after one has raised
RECURSIVE executemany_ocr_text(_, _, _, _)
executemany_ocr_text(d, ocr_records, i, fail_at) ==
    IF i > Len(ocr_records) \/ d.err THEN d
    ELSE IF i = fail_at THEN [d EXCEPT !.err = TRUE]
    ELSE LET rec == ocr_records[i]
             ocr_id == d.ocr_seq + 1
         IN  executemany_ocr_text(
                 [d EXCEPT !.ocr_seq = ocr_id,
                           !.ocr_text = Append(@, [id |-> ocr_id,
                                                   frame_path |-> rec.frame_path,
                                                   segment_id |-> rec.segment_id,
                                                   timestamp |-> rec.timestamp,
                                                   text_content |-> rec.text_content])],
                 ocr_records, i + 1, fail_at)

\* cursor.lastrowid read after executemany, as an optional value: the
\* sqlite3 module sets lastrowid in execute() only, so on the new cursor of
\* insert_ocr_batch it still is None
lastrowid_after_executemany(d) == <<>>

\* cursor.executemany("INSERT INTO ocr_search ..."), fts_records i..N
RECURSIVE executemany_ocr_search(_, _, _, _)
executemany_ocr_search(d, ocr_records, i, first_id) ==
    IF i > Len(ocr_records) \/ d.err THEN d
    ELSE LET rec == ocr_records[i]
         IN  executemany_ocr_search(
                 [d EXCEPT !.ocr_search = Append(@, [rowid |-> first_id + (i - 1),
                                                     text_content |-> rec.text_content,
                                                     segment_id |-> rec.segment_id,
                                                     timestamp |-> rec.timestamp])],
                 ocr_records, i + 1, first_id)

\* DatabaseManager.insert_ocr_batch: the catalog it leaves, with err set
\* when an exception reaches the caller.
\* "first_id = cursor.lastrowid - len(ocr_records) + 1" raises TypeError
\* when lastrowid is None.
insert_ocr_batch(d, ocr_records, fail_at) ==
    IF ocr_records = <<>> THEN d
    ELSE LET d1 == executemany_ocr_text(d, ocr_records, 1, fail_at)
             lastrowid == lastrowid_after_executemany(d1)
             d2 == IF d1.err THEN d1
                   ELSE IF lastrowid = <<>> THEN [d1 EXCEPT !.err = TRUE]
                   ELSE executemany_ocr_search(d1, ocr_records, 1,
                            lastrowid[1] - Len(ocr_records) + 1)
         IN  Rollback(d, d2)

(***************************************************************************)
(* Queries                                                                 *)
(***************************************************************************)
\* ORDER BY start_ts ASC: rows with equal start_ts stay in rowid order
RECURSIVE InsertByStart(_, _)
InsertByStart(sorted, r) ==
    IF sorted = <<>> THEN <<r>>
    ELSE IF Head(sorted).start_ts <= r.start_ts
         THEN <<Head(sorted)>> \o InsertByStart(Tail(sorted), r)
         ELSE <<r>> \o sorted

RECURSIVE OrderByStart(_)
OrderByStart(rows) ==
    IF rows = <<>> THEN <<>>
    ELSE InsertByStart(OrderByStart(SubSeq(rows, 1, Len(rows) - 1)), rows[Len(rows)])

\* cursor.fetchone() of a LIMIT 1 query, an Optional[SegmentRecord]:
\* <<row>> for the row, <<>> for None
FirstOrNone(rows) == IF rows = <<>> THEN <<>> ELSE <<Head(rows)>>
LastOrNone(rows) == IF rows = <<>> THEN <<>> ELSE <<rows[Len(rows)]>>

segment_exists(d, segment_id) ==
    \E i \in 1..Len(d.segments) : d.segments[i].id = segment_id

get_all_segments(d) == OrderByStart(d.segments)

get_segments_by_date(d, date_str) ==
    LET Match(r) == r.date = date_str IN OrderByStart(SelectSeq(d.segments, Match))

\* the range scan of idx_segments_date: rows in (date, rowid) order
RECURSIVE InsertByDate(_, _)
InsertByDate(sorted, r) ==
    IF sorted = <<>> THEN <<r>>
    ELSE IF Head(sorted).date <= r.date
         THEN <<Head(sorted)>> \o InsertByDate(Tail(sorted), r)
         ELSE <<r>> \o sorted

RECURSIVE ScanByDate(_)
ScanByDate(rows) ==
    IF rows = <<>> THEN <<>>
    ELSE InsertByDate(ScanByDate(SubSeq(rows, 1, Len(rows) - 1)), rows[Len(rows)])

\* "WHERE date >= ? AND date <= ? ORDER BY start_ts ASC": SQLite searches
\* idx_segments_date and sorts what the scan yields by start_ts, so rows
\* with equal start_ts stay in (date, rowid) order
get_segments_by_date_range(d, start_date, end_date) ==
    LET Match(r) == r.date >= start_date /\ r.date <= end_date
    IN  OrderByStart(ScanByDate(SelectSeq(d.segments, Match)))

\* "WHERE start_ts < ? AND end_ts > ?": both bounds exclusive
find_segment_at_timestamp_exclusive(d, timestamp) ==
    LET Match(r) == r.start_ts < timestamp /\ r.end_ts > timestamp
    IN  FirstOrNone(OrderByStart(SelectSeq(d.segments, Match)))

find_segment_at_timestamp(d, timestamp) ==
    LET Match(r) == r.start_ts <= timestamp /\ r.end_ts >= timestamp
    IN  FirstOrNone(OrderByStart(SelectSeq(d.segments, Match)))

\* "WHERE start_ts > ?"
find_nearest_segment_forward_strict(d, timestamp) ==
    LET Match(r) == r.start_ts > timestamp
    IN  FirstOrNone(OrderByStart(SelectSeq(d.segments, Match)))

\* "WHERE end_ts >= ?": a segment that has not ended yet also counts
find_nearest_segment_forward_by_end(d, timestamp) ==
    LET Match(r) == r.end_ts >= timestamp
    IN  FirstOrNone(OrderByStart(SelectSeq(d.segments, Match)))

find_nearest_segment_forward(d, timestamp) ==
    LET Match(r) == r.start_ts >= timestamp
    IN  FirstOrNone(OrderByStart(SelectSeq(d.segments, Match)))

\* ORDER BY start_ts ASC LIMIT 1
find_nearest_segment_backward_asc(d, timestamp) ==
    LET Match(r) == r.end_ts <= timestamp
    IN  FirstOrNone(OrderByStart(SelectSeq(d.segments, Match)))

\* ORDER BY start_ts DESC LIMIT 1
find_nearest_segment_backward(d, timestamp) ==
    LET Match(r) == r.end_ts <= timestamp
    IN  LastOrNone(OrderByStart(SelectSeq(d.segments, Match)))

\* float('inf'), the cutoff of the policy "never": a number above every
\* timestamp of the model
Infinity == 1000000

older_or_equal(ts, cutoff) == ts <= cutoff

\* "WHERE start_ts < ?"
older_than(ts, cutoff) == ts < cutoff

IdAndPath(rows) == [i \in 1..Len(rows) |-> <<rows[i].id, rows[i].video_path>>]

get_old_segments(d, cutoff_timestamp) ==
    LET Match(r) == older_than(r.start_ts, cutoff_timestamp)
    IN  IdAndPath(OrderByStart(SelectSeq(d.segments, Match)))

\* ORDER BY timestamp ASC
RECURSIVE InsertByTimestamp(_, _)
InsertByTimestamp(sorted, r) ==
    IF sorted = <<>> THEN <<r>>
    ELSE IF Head(sorted).timestamp <= r.timestamp
         THEN <<Head(sorted)>> \o InsertByTimestamp(Tail(sorted), r)
         ELSE <<r>> \o sorted

RECURSIVE OrderByTimestamp(_)
OrderByTimestamp(rows) ==
    IF rows = <<>> THEN <<>>
    ELSE InsertByTimestamp(OrderByTimestamp(SubSeq(rows, 1, Len(rows) - 1)), rows[Len(rows)])

\* SELECT ... FROM ocr_text WHERE segment_id = ? ORDER BY timestamp ASC
get_ocr_by_segment(d, segment_id) ==
    LET Match(r) == r.segment_id = segment_id
    IN  OrderByTimestamp(SelectSeq(d.ocr_text, Match))

\* SELECT ... FROM ocr_text o JOIN ocr_search s ON o.id = s.rowid
\* WHERE s.text_content MATCH ?: the ocr_text rows that have a search entry
\* with their id whose text matches; a text matches the query equal to it
search_ocr_text(d, query) ==
    LET Match(o) == \E i \in 1..Len(d.ocr_search) :
                        /\ d.ocr_search[i].rowid = o.id
                        /\ d.ocr_search[i].text_content = query
    IN  SelectSeq(d.ocr_text, Match)

(***************************************************************************)
(* Store operations as actions                                             *)
(***************************************************************************)
\* what lastOp records: the operation, the id it was given, whether it
\* raised; for a retention operation its policy, its dry_run flag, the
\* count it returned and whether an item failed; for delete_segment,
\* count is the number of rows the DELETE removed, for insert_segment and
\* insert_appsegment the number of rows the REPLACE removed
OpRecord(op, id, raised) ==
    [op |-> op, id |-> id, raised |-> raised,
     policy |-> None, dry_run |-> FALSE, count |-> 0, failed |-> FALSE]

\* no store exists yet and no retention operation has run
StoreIdle ==
    /\ db = EmptyDb
    /\ videoFiles = {}
    /\ tempFiles = {}
    /\ segCount = 0
    /\ lastOp = OpRecord("none", None, FALSE)

\* no recording sweep is in progress
SweepIdle ==
    /\ swPc = "idle"
    /\ swPolicy = None
    /\ swDryRun = FALSE
    /\ swItems = <<>>
    /\ swIdx = 1
    /\ swCount = 0

\* no frame has been captured for the day and no process_day run has started
DayIdle ==
    /\ dayTemp = {}
    /\ dayCaptured = 0
    /\ pdPc = "idle"
    /\ pdFrames = <<>>
    /\ pdSegments = <<>>
    /\ pdApps = <<>>
    /\ pdIdx = 1
    /\ pdKilled = FALSE
    /\ pdFailed = FALSE

\* no store method is running statement by statement
TxnIdle ==
    /\ cxProg = <<>>
    /\ cxWork = <<>>
    /\ cxDone = <<>>
    /\ rdSeen = <<>>

\* the exception, if any, has reached the caller: err is cleared
Returned(d) == [d EXCEPT !.err = FALSE]

Initialize ==
    /\ db' = Returned(initialize(db))
    /\ lastOp' = OpRecord("initialize", None, initialize(db).err)
    /\ UNCHANGED <<videoFiles, tempFiles, segCount, segVars, ocrVars, sweepVars, dayVars, txnVars>>

\* every caller obtains its DatabaseManager from init_database, which
\* has run initialize: the tables exist when the other methods are called
InsertSegment(id, date, start_ts, end_ts) ==
    /\ HasTable(db, "segments")
    /\ db' = insert_segment(db, SegmentRow(id, date, start_ts, end_ts, VideoPath(id)))
    /\ lastOp' = [OpRecord("insert_segment", id, FALSE) EXCEPT
                     !.count = IF segment_exists(db, id) THEN 1 ELSE 0]
    /\ UNCHANGED <<videoFiles, tempFiles, segCount, segVars, ocrVars, sweepVars, dayVars, txnVars>>

DeleteSegment(id) ==
    /\ HasTable(db, "segments")
    /\ db' = delete_segment(db, id)
    /\ lastOp' = [OpRecord("delete_segment", id, FALSE) EXCEPT
                     !.count = Len(db.segments) - Len(delete_segment(db, id).segments)]
    /\ UNCHANGED <<videoFiles, tempFiles, segCount, segVars, ocrVars, sweepVars, dayVars, txnVars>>

InsertAppsegment(id, app_id, date, start_ts, end_ts) ==
    /\ HasTable(db, "appsegments")
    /\ db' = insert_appsegment(db, AppSegmentRow(id, app_id, date, start_ts, end_ts))
    /\ lastOp' = [OpRecord("insert_appsegment", id, FALSE) EXCEPT
                     !.count = Cardinality({i \in 1..Len(db.appsegments) :
                                               db.appsegments[i].id = id})]
    /\ UNCHANGED <<videoFiles, tempFiles, segCount, segVars, ocrVars, sweepVars, dayVars, txnVars>>

DeleteAppsegment(id) ==
    /\ HasTable(db, "appsegments")
    /\ db' = delete_appsegment(db, id)
    /\ lastOp' = OpRecord("delete_appsegment", id, FALSE)
    /\ UNCHANGED <<videoFiles, tempFiles, segCount, segVars, ocrVars, sweepVars, dayVars, txnVars>>

InsertOcrText(frame_path, timestamp, text_content, segment_id) ==
    /\ HasTable(db, "ocr_text")
    /\ Len(db.ocr_text) < MaxOcrRows
    /\ db' = insert_ocr_text(db, frame_path, timestamp, text_content, segment_id)
    /\ lastOp' = OpRecord("insert_ocr_text", segment_id, FALSE)
    /\ UNCHANGED <<videoFiles, tempFiles, segCount, segVars, ocrVars, sweepVars, dayVars, txnVars>>

\* lastOp.count is the value insert_ocr_batch returned, 0 when it raised
InsertOcrBatch(ocr_records, fail_at) ==
    /\ HasTable(db, "ocr_text")
    /\ Len(db.ocr_text) <= MaxOcrRows
    /\ db' = Returned(insert_ocr_batch(db, ocr_records, fail_at))
    /\ lastOp' = [OpRecord("insert_ocr_batch", None,
                           insert_ocr_batch(db, ocr_records, fail_at).err) EXCEPT
                     !.count = IF insert_ocr_batch(db, ocr_records, fail_at).err
                               THEN 0 ELSE Len(ocr_records)]
    /\ UNCHANGED <<videoFiles, tempFiles, segCount, segVars, ocrVars, sweepVars, dayVars, txnVars>>

\* the batches given to insert_ocr_batch: 0..MaxBatch records, record i
\* for frame i of the first segment with text "text"
Batches ==
    {[i \in 1..n |-> OcrRecord(ImagePath(i), i, "text", generate_segment_id(1))] :
        n \in 0..MaxBatch}

(***************************************************************************)
(* process_ocr_for_frames: build_chunks_from_temp.py                       *)
(***************************************************************************)
\* the texts an OCR result carries
OcrTexts == {"", " ", "text"}

\* str.strip() on those texts
strip(text) == IF text \in {"", " "} THEN "" ELSE text

\* an OCRResult with the text the engine recognized
OCRResultWithText(frame_path, success, text) ==
    [frame_path |-> frame_path, success |-> success, text |-> text]

\* the for loop over zip(frames, ocr_results): a failed result and a result
\* whose stripped text is empty are skipped, the others become records
RECURSIVE build_ocr_records(_, _, _)
build_ocr_records(day_frames, ocr_results, segment_id) ==
    IF day_frames = <<>> \/ ocr_results = <<>> THEN <<>>
    ELSE LET frame == Head(day_frames)
             result == Head(ocr_results)
             rest == build_ocr_records(Tail(day_frames), Tail(ocr_results), segment_id)
         IN  IF ~result.success THEN rest
             ELSE IF strip(result.text) = "" THEN rest
             ELSE <<OcrRecord(frame.path, frame.ts, result.text, segment_id)>> \o rest

\* process_ocr_for_frames with OCR available and perform_ocr_batch
\* returning ocr_results: the records go to insert_ocr_batch in one call,
\* and an exception of that call is logged and answered with 0
process_ocr_for_frames(d, day_frames, ocr_results, segment_id) ==
    LET ocr_records == build_ocr_records(day_frames, ocr_results, segment_id)
        after == insert_ocr_batch(d, ocr_records, 0)
    IN  IF day_frames = <<>> \/ ocr_records = <<>> THEN [db |-> d, inserted |-> 0]
        ELSE IF after.err THEN [db |-> Returned(after), inserted |-> 0]
        ELSE [db |-> after, inserted |-> Len(ocr_records)]

\* the frames of the segment: frame i was captured at ts i
OcrFrames(n) == [i \in 1..n |-> FrameInfo(ImagePath(i), i, None, 1, 1)]

\* the result lists perform_ocr_batch can return for them, one per frame
OcrResultLists(n) ==
    {[i \in 1..n |-> OCRResultWithText(ImagePath(i), outcome[i][1], outcome[i][2])] :
        outcome \in [1..n -> (BOOLEAN \X OcrTexts)]}

\* process_day calls process_ocr_for_frames with the frames of a segment;
\* ocrResults is what perform_ocr_batch returned for them
ProcessOcrForFrames ==
    /\ oPc = "results"
    /\ HasTable(db, "ocr_text")
    /\ LET r == process_ocr_for_frames(db, frames, ocrResults, generate_segment_id(1))
       IN  /\ db' = r.db
           /\ lastOp' = [OpRecord("process_ocr_for_frames", None, FALSE) EXCEPT
                            !.count = r.inserted]
    /\ oPc' = "stored"
    /\ UNCHANGED <<videoFiles, tempFiles, segCount, segVars, ocrPaths, numWorkers,
                   taskQ, resultQ, wState, wTask, oIdx, ocrResults,
                   sweepVars, dayVars, txnVars>>

(***************************************************************************)
(* Specification SpecText: process_ocr_for_frames on every bounded list    *)
(* of OCR results, on a catalog with and without earlier OCR rows          *)
(***************************************************************************)
InitText ==
    /\ \E n \in 0..MaxBatch :
          /\ frames = OcrFrames(n)
          /\ ocrResults \in OcrResultLists(n)
    /\ maxFrames = 0
    /\ SegIdle
    /\ ocrPaths = <<>>
    /\ numWorkers = 1
    /\ taskQ = <<>>
    /\ resultQ = <<>>
    /\ wState = <<"new">>
    /\ wTask = <<NoPath>>
    /\ oPc = "results"
    /\ oIdx = 1
    /\ db = Returned(initialize(EmptyDb))
    /\ videoFiles = {}
    /\ tempFiles = {}
    /\ segCount = 0
    /\ lastOp = OpRecord("none", None, FALSE)
    /\ SweepIdle
    /\ DayIdle
    /\ TxnIdle

NextText ==
    \/ \E segment_id \in {None, generate_segment_id(1)} :
          InsertOcrText(ImagePath(1), 1, "text", segment_id)
    \/ ProcessOcrForFrames

SpecText == InitText /\ [][NextText]_vars

\* "DELETE FROM ocr_text WHERE segment_id = ?": the statement names the
\* text table only, and no trigger ties ocr_search to it
delete_ocr_by_segment(d, segment_id) ==
    LET Others(r) == r.segment_id # segment_id
    IN  [d EXCEPT !.ocr_text = SelectSeq(@, Others)]

\* lastOp.count is cursor.rowcount, the value delete_ocr_by_segment returns
DeleteOcrBySegment(segment_id) ==
    /\ HasTable(db, "ocr_text")
    /\ db' = delete_ocr_by_segment(db, segment_id)
    /\ lastOp' = [OpRecord("delete_ocr_by_segment", segment_id, FALSE) EXCEPT
                     !.count = Len(db.ocr_text)
                               - Len(delete_ocr_by_segment(db, segment_id).ocr_text)]
    /\ UNCHANGED <<videoFiles, tempFiles, segCount, segVars, ocrVars, sweepVars, dayVars, txnVars>>

(***************************************************************************)
(* Specification SpecIndex: the methods that write or delete OCR rows,     *)
(* and delete_segment, called in any order on an initialized catalog       *)
(***************************************************************************)
InitIndex ==
    /\ frames = <<>>
    /\ maxFrames = 0
    /\ SegIdle
    /\ OcrIdle
    /\ db = Returned(initialize(EmptyDb))
    /\ videoFiles = {}
    /\ tempFiles = {}
    /\ segCount = 0
    /\ lastOp = OpRecord("none", None, FALSE)
    /\ SweepIdle
    /\ DayIdle
    /\ TxnIdle

NextIndex ==
    \/ InsertSegment(generate_segment_id(1), 1, 1, 1)
    \/ DeleteSegment(generate_segment_id(1))
    \/ \E segment_id \in {generate_segment_id(1), generate_segment_id(2)} :
          /\ db.ocr_seq < MaxOcrIds
          /\ InsertOcrText(ImagePath(1), 1, "text", segment_id)
    \/ \E ocr_records \in Batches : \E fail_at \in 0..Len(ocr_records) :
          InsertOcrBatch(ocr_records, fail_at)
    \/ \E segment_id \in {generate_segment_id(1), generate_segment_id(2)} :
          DeleteOcrBySegment(segment_id)

SpecIndex == InitIndex /\ [][NextIndex]_vars

(***************************************************************************)
(* Specification Spec: the store API called in any order                   *)
(***************************************************************************)
Init ==
    /\ frames = <<>>
    /\ maxFrames = 0
    /\ SegIdle
    /\ OcrIdle
    /\ StoreIdle
    /\ SweepIdle
    /\ DayIdle
    /\ TxnIdle

Next ==
    \/ Initialize
    \/ \E id \in SegIds, date \in Dates, start_ts \in Timestamps, end_ts \in Timestamps :
          start_ts <= end_ts /\ InsertSegment(id, date, start_ts, end_ts)
    \/ \E id \in SegIds : DeleteSegment(id)
    \/ \E app_id \in {None, "a"} : InsertAppsegment("a1", app_id, 1, 1, 2)
    \/ DeleteAppsegment("a1")
    \/ \E segment_id \in {None, generate_segment_id(1)} : InsertOcrText(ImagePath(1), 1, "text", segment_id)
    \/ \E ocr_records \in Batches : \E fail_at \in 0..Len(ocr_records) :
          InsertOcrBatch(ocr_records, fail_at)

Spec == Init /\ [][Next]_vars

(***************************************************************************)
(* The retention engine: cleanup_old_chunks.py                             *)
(***************************************************************************)
Policies == {"never", "1_day", "1_week", "1_month"}

\* the age_days table of calculate_cutoff_timestamp
age_days(policy) ==
    CASE policy = "1_day" -> 1
      [] policy = "1_week" -> 7
      [] policy = "1_month" -> 30

\* datetime.now() - timedelta(days=age_days[policy]), float('inf') for never
calculate_cutoff_timestamp(policy) ==
    IF policy = "never" THEN Infinity ELSE NowTs - age_days(policy)

\* the early return on "never" left out
policy_is_never_ignored(policy) == FALSE

\* 'if policy == "never"': the sweep logs that it is skipped and returns 0, 0
policy_is_never(policy) == policy = "never"

\* start_ts of the segments in the archive: 40 days, 10 days, 1 day old
RetTimestamps == {NowTs - 40, NowTs - 10, NowTs - 1}

TempNames == {"t1", "t2"}

\* file names under temp/ that start with a dot
HiddenNames == {".DS_Store"}
TempTimestamps == {NowTs - 10}

\* a file under temp/ with the fields of its os.stat_result the sweep reads;
\* has_birthtime says whether the platform's stat_result has st_birthtime
StatFile(name, has_birthtime, st_birthtime, st_mtime) ==
    [name |-> name, has_birthtime |-> has_birthtime,
     st_birthtime |-> st_birthtime, st_mtime |-> st_mtime]

\* a raw capture file written at ts on a platform without st_birthtime
TempFile(name, ts) == StatFile(name, FALSE, 0, ts)

\* file_ts = getattr(stat, 'st_birthtime', stat.st_mtime)
file_ts(f) == IF f.has_birthtime THEN f.st_birthtime ELSE f.st_mtime

\* file.startswith('.')
is_hidden(name) == name \in HiddenNames

\* what a retention operation leaves in lastOp
RetRecord(op, policy, dry_run, count, failed, raised) ==
    [op |-> op, id |-> None, raised |-> raised,
     policy |-> policy, dry_run |-> dry_run, count |-> count, failed |-> failed]

\* "if not full_path.exists()" with the condition inverted
file_missing_inverted(files, video_path) == video_path \in files

\* "not full_path.exists()"
file_missing(files, video_path) == video_path \notin files

\* the unlink() call left out: the file stays on disk
unlink_missing(files, video_path) == files

\* full_path.unlink()
unlink(files, video_path) == files \ {video_path}

\* no item fails
NoFailure == <<"none", None>>

\* "deleted_count += 1" moved out of the try block: a failed item counts
deleted_count_always(deleted_count, raises) == deleted_count + 1

\* "deleted_count += 1" is the last statement of the try block: it is
\* skipped when an earlier statement of the block raised
deleted_count_after(deleted_count, raises) ==
    IF raises THEN deleted_count ELSE deleted_count + 1

\* The for loop of cleanup_old_recordings over old_segments from item i
\* on.  st is (db, files, count, failed).  fail names the call that raises
\* in this run, if any: <<"unlink", id>> for full_path.unlink() of that
\* segment, <<"delete", id>> for db.delete_segment(id).  An exception is
\* caught by the loop body's except clause: the item is not counted and
\* the loop goes on.
RECURSIVE RecordingLoop(_, _, _, _, _)
RecordingLoop(old_segments, i, dry_run, fail, st) ==
    IF i > Len(old_segments) THEN st
    ELSE LET segment_id == old_segments[i][1]
             video_path == old_segments[i][2]
             present == ~file_missing(st.files, video_path)
             unlink_raises == present /\ ~dry_run /\ fail = <<"unlink", segment_id>>
             delete_raises == ~dry_run /\ fail = <<"delete", segment_id>>
             files1 == IF present /\ ~dry_run /\ ~unlink_raises
                       THEN unlink(st.files, video_path) ELSE st.files
             db1 == IF ~dry_run /\ ~unlink_raises /\ ~delete_raises
                    THEN delete_segment(st.db, segment_id) ELSE st.db
             raises == unlink_raises \/ delete_raises
         IN  RecordingLoop(old_segments, i + 1, dry_run, fail,
                 [db |-> db1, files |-> files1,
                  count |-> deleted_count_after(st.count, raises),
                  failed |-> st.failed \/ raises])

cleanup_old_recordings(d, files, policy, dry_run, fail) ==
    IF policy_is_never(policy)
    THEN [db |-> d, files |-> files, count |-> 0, failed |-> FALSE]
    ELSE LET cutoff_ts == calculate_cutoff_timestamp(policy)
             d1 == Returned(initialize(d))
             old_segments == get_old_segments(d1, cutoff_ts)
         IN  RecordingLoop(old_segments, 1, dry_run, fail,
                 [db |-> d1, files |-> files, count |-> 0, failed |-> FALSE])

\* The for loop of cleanup_orphaned_segments from item i on.  The loop has
\* no except clause: when db.delete_segment raises (fail = <<"delete", id>>)
\* the exception leaves the function and the remaining items are not visited.
RECURSIVE OrphanLoop(_, _, _, _, _)
OrphanLoop(segments, i, dry_run, fail, st) ==
    IF i > Len(segments) THEN st
    ELSE LET segment == segments[i] IN
         IF file_missing(st.files, segment.video_path)
         THEN IF ~dry_run /\ fail = <<"delete", segment.id>>
              THEN [st EXCEPT !.raised = TRUE]
              ELSE OrphanLoop(segments, i + 1, dry_run, fail,
                       [st EXCEPT !.db = IF dry_run THEN @ ELSE delete_segment(@, segment.id),
                                  !.count = @ + 1])
         ELSE OrphanLoop(segments, i + 1, dry_run, fail, st)

cleanup_orphaned_segments(d, files, dry_run, fail) ==
    LET d1 == Returned(initialize(d))
    IN  OrphanLoop(get_all_segments(d1), 1, dry_run, fail,
            [db |-> d1, files |-> files, count |-> 0, raised |-> FALSE])

\* "if file_ts < cutoff_ts" written with <=
cleanup_temp_files_inclusive(temp, policy) ==
    IF policy_is_never(policy) THEN {}
    ELSE {f \in temp : /\ ~is_hidden(f.name)
                        /\ file_ts(f) <= calculate_cutoff_timestamp(policy)}

\* the files cleanup_temp_files deletes: the files of os.walk(temp_dir)
\* that pass "if file.startswith('.'): continue" and "if file_ts < cutoff_ts"
cleanup_temp_files(temp, policy) ==
    IF policy_is_never(policy) THEN {}
    ELSE {f \in temp : /\ ~is_hidden(f.name)
                        /\ file_ts(f) < calculate_cutoff_timestamp(policy)}

\* process_day's work for one segment group: generate_segment_id, the
\* encoder writes the video file, insert_segment adds the row.
Ingest(ts) ==
    LET id == generate_segment_id(segCount + 1) IN
    /\ segCount < MaxSegments
    /\ segCount' = segCount + 1
    /\ videoFiles' = videoFiles \cup {VideoPath(id)}
    /\ db' = insert_segment(Returned(initialize(db)),
                            SegmentRow(id, 1, ts, ts, VideoPath(id)))
    /\ lastOp' = OpRecord("process_day", id, FALSE)
    /\ UNCHANGED <<tempFiles, segVars, ocrVars, sweepVars, dayVars, txnVars>>

\* record_screen writes a raw capture into temp/
Capture(name, ts) ==
    /\ \A f \in tempFiles : f.name # name
    /\ tempFiles' = tempFiles \cup {TempFile(name, ts)}
    /\ lastOp' = OpRecord("record_screen", None, FALSE)
    /\ UNCHANGED <<db, videoFiles, segCount, segVars, ocrVars, sweepVars, dayVars, txnVars>>

\* a video file is removed by something other than the retention engine
RemoveOutOfBand(video_path) ==
    /\ video_path \in videoFiles
    /\ videoFiles' = videoFiles \ {video_path}
    /\ lastOp' = OpRecord("out_of_band", None, FALSE)
    /\ UNCHANGED <<db, tempFiles, segCount, segVars, ocrVars, sweepVars, dayVars, txnVars>>

\* The os.walk loop of cleanup_temp_files.  fail names the file whose
\* file_path.unlink() raises in this run, if any: <<"unlink", name>>.  The
\* exception is caught by the except clause of the loop body: the file
\* stays, "deleted_count += 1" is skipped and the loop goes on.
TempLoop(temp, policy, dry_run, fail) ==
    LET candidates == cleanup_temp_files(temp, policy)
        failing == {f \in candidates : ~dry_run /\ fail = <<"unlink", f.name>>}
        deleted == candidates \ failing
    IN  [temp |-> IF dry_run THEN temp ELSE temp \ deleted,
         count |-> Cardinality(deleted), failed |-> failing # {}]

TempSweep(policy, dry_run, fail) ==
    LET r == TempLoop(tempFiles, policy, dry_run, fail)
    IN  /\ tempFiles' = r.temp
        /\ lastOp' = RetRecord("cleanup_temp_files", policy, dry_run,
                               r.count, r.failed, FALSE)
        /\ UNCHANGED <<db, videoFiles, segCount, segVars, ocrVars, sweepVars, dayVars, txnVars>>

RecordingSweep(policy, dry_run, fail) ==
    LET r == cleanup_old_recordings(db, videoFiles, policy, dry_run, fail)
    IN  /\ db' = r.db
        /\ videoFiles' = r.files
        /\ lastOp' = RetRecord("cleanup_old_recordings", policy, dry_run,
                               r.count, r.failed, FALSE)
        /\ UNCHANGED <<tempFiles, segCount, segVars, ocrVars, sweepVars, dayVars, txnVars>>

OrphanReconciliation(dry_run, fail) ==
    LET r == cleanup_orphaned_segments(db, videoFiles, dry_run, fail)
    IN  /\ db' = r.db
        /\ lastOp' = RetRecord("cleanup_orphaned_segments", None, dry_run,
                               r.count, r.raised, r.raised)
        /\ UNCHANGED <<videoFiles, tempFiles, segCount, segVars, ocrVars, sweepVars, dayVars, txnVars>>

\* vacuum_database: "if not db_path.exists(): return 0", else
\* init_database and VACUUM, which changes no row
vacuum_database(d) ==
    IF d.objects = <<>> THEN d ELSE Returned(initialize(d))

\* the vacuum step of main: "if args.vacuum and not args.dry_run"
main_vacuum(d, dry_run) == IF dry_run THEN d ELSE vacuum_database(d)

Vacuum(dry_run) ==
    /\ db' = main_vacuum(db, dry_run)
    /\ lastOp' = RetRecord("vacuum_database", None, dry_run, 0, FALSE, FALSE)
    /\ UNCHANGED <<videoFiles, tempFiles, segCount, segVars, ocrVars, sweepVars, dayVars, txnVars>>

(***************************************************************************)
(* Specification SpecRet: ingestion, out-of-band removals and the          *)
(* retention operations in any order                                       *)
(***************************************************************************)
\* the calls a recording sweep makes that may raise: unlink() for an
\* expired segment whose file exists, delete_segment for an expired segment
UnlinkFailures(policy) ==
    IF policy = "never" THEN {}
    ELSE {<<"unlink", r.id>> : r \in {x \in Range(db.segments) :
              /\ older_than(x.start_ts, calculate_cutoff_timestamp(policy))
              /\ ~file_missing(videoFiles, x.video_path)}}

\* the unlink() calls a temp sweep makes
TempFailures(policy) ==
    {<<"unlink", f.name>> : f \in cleanup_temp_files(tempFiles, policy)}

DeleteFailures(policy) ==
    IF policy = "never" THEN {}
    ELSE {<<"delete", r.id>> : r \in {x \in Range(db.segments) :
              older_than(x.start_ts, calculate_cutoff_timestamp(policy))}}

\* the delete_segment calls orphan reconciliation makes
OrphanFailures ==
    {<<"delete", r.id>> : r \in {x \in Range(db.segments) :
         file_missing(videoFiles, x.video_path)}}

NextRet ==
    \/ \E ts \in RetTimestamps : Ingest(ts)
    \/ \E name \in TempNames, ts \in TempTimestamps : Capture(name, ts)
    \/ \E video_path \in videoFiles : RemoveOutOfBand(video_path)
    \/ \E policy \in Policies : TempSweep(policy, TRUE, NoFailure)
    \/ \E policy \in Policies :
          \E fail \in {NoFailure} \cup TempFailures(policy) : TempSweep(policy, FALSE, fail)
    \/ \E policy \in Policies : RecordingSweep(policy, TRUE, NoFailure)
    \/ \E policy \in Policies :
          \E fail \in {NoFailure} \cup UnlinkFailures(policy) \cup DeleteFailures(policy) :
              RecordingSweep(policy, FALSE, fail)
    \/ OrphanReconciliation(TRUE, NoFailure)
    \/ \E fail \in {NoFailure} \cup OrphanFailures : OrphanReconciliation(FALSE, fail)
    \/ \E dry_run \in BOOLEAN : Vacuum(dry_run)

SpecRet == Init /\ [][NextRet]_vars

(***************************************************************************)
(* Specification SpecTemp: the temp sweep over a temp/ tree that holds     *)
(* hidden files and files whose creation and modification times differ,    *)
(* next to ingestion                                                       *)
(***************************************************************************)
\* creation and modification times of the files under temp/: 10 days and
\* 1 day old
StatTimestamps == {NowTs - 10, NowTs - 1}

\* a file appears under temp/; os.stat_result has st_birthtime for every
\* file of a platform or for none
WriteFile(name, has_birthtime, st_birthtime, st_mtime) ==
    /\ \A f \in tempFiles : f.name # name /\ f.has_birthtime = has_birthtime
    /\ tempFiles' = tempFiles \cup {StatFile(name, has_birthtime, st_birthtime, st_mtime)}
    /\ lastOp' = OpRecord("record_screen", None, FALSE)
    /\ UNCHANGED <<db, videoFiles, segCount, segVars, ocrVars, sweepVars, dayVars, txnVars>>

NextTemp ==
    \/ Ingest(NowTs - 40)
    \/ \E name \in TempNames \cup HiddenNames, st_mtime \in StatTimestamps :
          WriteFile(name, FALSE, 0, st_mtime)
    \/ \E name \in TempNames \cup HiddenNames :
          \E st_birthtime \in StatTimestamps, st_mtime \in StatTimestamps :
              WriteFile(name, TRUE, st_birthtime, st_mtime)
    \/ \E policy \in Policies : TempSweep(policy, TRUE, NoFailure)
    \/ \E policy \in Policies :
          \E fail \in {NoFailure} \cup TempFailures(policy) : TempSweep(policy, FALSE, fail)

SpecTemp == Init /\ [][NextTemp]_vars

(***************************************************************************)
(* Specification SpecSweep: the recording sweep statement by statement,    *)
(* next to ingestion and out-of-band removals; the sweep process may be    *)
(* killed between any two statements                                       *)
(***************************************************************************)
\* the sweep returns: lastOp gets its result, no sweep is in progress
SweepReturn(policy, dry_run, count, failed) ==
    /\ lastOp' = RetRecord("cleanup_old_recordings", policy, dry_run, count, failed, FALSE)
    /\ swPc' = "idle"
    /\ swPolicy' = None
    /\ swDryRun' = FALSE
    /\ swItems' = <<>>
    /\ swIdx' = 1
    /\ swCount' = 0

\* the for loop goes to the next item, with deleted_count = count, or ends
\* after the last one; an item is not counted exactly when it failed
SweepNextItem(count) ==
    IF swIdx = Len(swItems)
    THEN SweepReturn(swPolicy, swDryRun, count, count < Len(swItems))
    ELSE /\ swIdx' = swIdx + 1
         /\ swCount' = count
         /\ swPc' = "file"
         /\ UNCHANGED <<lastOp, swPolicy, swDryRun, swItems>>

\* cleanup_old_recordings up to the for loop: the early returns for the
\* policy never and for an empty old_segments, else the loop starts
SweepStart(policy, dry_run) ==
    /\ swPc \in {"idle", "crashed"}
    /\ IF policy = "never"
       THEN /\ SweepReturn(policy, dry_run, 0, FALSE)
            /\ UNCHANGED db
       ELSE LET d1 == Returned(initialize(db))
                old_segments == get_old_segments(d1, calculate_cutoff_timestamp(policy))
            IN  /\ db' = d1
                /\ IF old_segments = <<>>
                   THEN SweepReturn(policy, dry_run, 0, FALSE)
                   ELSE /\ swPc' = "file"
                        /\ swPolicy' = policy
                        /\ swDryRun' = dry_run
                        /\ swItems' = old_segments
                        /\ swIdx' = 1
                        /\ swCount' = 0
                        /\ UNCHANGED lastOp
    /\ UNCHANGED <<videoFiles, tempFiles, segCount, segVars, ocrVars, dayVars, txnVars>>

\* "if full_path.exists(): ... if not dry_run: full_path.unlink()" for the
\* item at swIdx; when unlink raises, the except clause ends the item
SweepFile(raises) ==
    LET video_path == swItems[swIdx][2]
        unlinks == ~file_missing(videoFiles, video_path) /\ ~swDryRun
    IN  /\ swPc = "file"
        /\ raises => unlinks
        /\ IF raises
           THEN /\ SweepNextItem(swCount)
                /\ UNCHANGED videoFiles
           ELSE /\ videoFiles' = IF unlinks THEN unlink(videoFiles, video_path) ELSE videoFiles
                /\ swPc' = "row"
                /\ UNCHANGED <<lastOp, swPolicy, swDryRun, swItems, swIdx, swCount>>
        /\ UNCHANGED <<db, tempFiles, segCount, segVars, ocrVars, dayVars, txnVars>>

\* "if not dry_run: db.delete_segment(segment_id)" and
\* "deleted_count += 1" for the item at swIdx; when delete_segment raises,
\* the except clause ends the item before the count
SweepRow(raises) ==
    LET segment_id == swItems[swIdx][1]
    IN  /\ swPc = "row"
        /\ raises => ~swDryRun
        /\ IF raises
           THEN /\ SweepNextItem(swCount)
                /\ UNCHANGED db
           ELSE /\ db' = IF swDryRun THEN db ELSE delete_segment(db, segment_id)
                /\ SweepNextItem(swCount + 1)
        /\ UNCHANGED <<videoFiles, tempFiles, segCount, segVars, ocrVars, dayVars, txnVars>>

\* the sweep process is killed where it is
SweepCrash ==
    /\ swPc \in {"file", "row"}
    /\ swPc' = "crashed"
    /\ UNCHANGED <<swPolicy, swDryRun, swItems, swIdx, swCount, storeVars, segVars, ocrVars, dayVars, txnVars>>

NextSweep ==
    \/ \E ts \in RetTimestamps : Ingest(ts)
    \/ \E video_path \in videoFiles : RemoveOutOfBand(video_path)
    \/ \E policy \in Policies, dry_run \in BOOLEAN : SweepStart(policy, dry_run)
    \/ \E raises \in BOOLEAN : SweepFile(raises)
    \/ \E raises \in BOOLEAN : SweepRow(raises)
    \/ SweepCrash

SpecSweep == Init /\ [][NextSweep]_vars

(***************************************************************************)
(* Specification SpecDay: record_screen writing frames into the day's      *)
(* temp directory while process_day runs on it, one segment unit at a      *)
(* time; the encoder may fail and the process may be killed between two    *)
(* units.  OCR is not available (OCR_AVAILABLE is False) and cleanup is    *)
(* True, its default.                                                      *)
(***************************************************************************)
\* most frames record_screen writes for the day
MaxDayFrames == 3
\* most ids generate_segment_id hands out over all runs of the day
MaxDayIds == 10

\* max_frames_per_segment = int(fps * segment_duration)
FramesPerSegment == 2
\* the frontmost applications seen during the day
DayApps == {"a", "b"}
\* date_str of the day
DayDate == 1

\* frames.sort(key=lambda f: f.ts) over the files of the day's directory
RECURSIVE SortByTs(_)
SortByTs(S) ==
    IF S = {} THEN <<>>
    ELSE LET first == CHOOSE f \in S : \A g \in S : f.ts <= g.ts
         IN  <<first>> \o SortByTs(S \ {first})

\* the list without frames.sort: the files in the order the directory
\* yields them, here the latest first
load_frames_for_day_unsorted(temp) ==
    LET sorted == SortByTs(temp)
    IN  [i \in 1..Len(sorted) |-> sorted[Len(sorted) + 1 - i]]

load_frames_for_day(temp) == SortByTs(temp)

\* record_screen writes the next frame of the day; its creation time is
\* later than that of every frame before it
CaptureFrame(app_id) ==
    /\ dayCaptured < MaxDayFrames
    /\ dayCaptured' = dayCaptured + 1
    /\ dayTemp' = dayTemp \cup {FrameInfo(dayCaptured + 1, dayCaptured + 1, app_id, 1, 1)}
    /\ UNCHANGED <<pdPc, pdFrames, pdSegments, pdApps, pdIdx, pdKilled, pdFailed,
                   segVars, ocrVars, storeVars, sweepVars, txnVars>>

\* process_day up to the start of the for loop over the segments
DayStart ==
    LET fs == load_frames_for_day(dayTemp)
        apps == build_appsegments_for_day(fs)
        segs == group_frames_by_count(fs, FramesPerSegment)
    IN  /\ pdPc \in {"idle", "completed", "failed", "killed"}
        /\ segCount + Len(segs) + Len(apps) <= MaxDayIds
        /\ pdFrames' = fs
        /\ pdSegments' = segs
        /\ pdApps' = apps
        /\ pdIdx' = 1
        /\ IF fs = <<>>
           THEN pdPc' = "completed" /\ UNCHANGED db
           ELSE pdPc' = "segment" /\ db' = Returned(initialize(db))
        /\ UNCHANGED <<dayTemp, dayCaptured, pdKilled, pdFailed, videoFiles, tempFiles,
                       segCount, lastOp, segVars, ocrVars, sweepVars, txnVars>>

\* One iteration of the for loop over the segments: generate_segment_id,
\* create_video_from_images, insert_segment.  When the encoder fails,
\* create_video_from_images raises FFmpegError; nothing in the loop
\* catches it, so it leaves process_day.
DaySegment(encoder_fails) ==
    LET seg_frames == pdSegments[pdIdx]
        segment_id == generate_segment_id(segCount + 1)
    IN  /\ pdPc = "segment"
        /\ IF encoder_fails
           THEN /\ pdPc' = "failed"
                /\ pdFailed' = TRUE
                /\ UNCHANGED <<db, videoFiles, segCount, pdIdx>>
           ELSE /\ videoFiles' = videoFiles \cup {VideoPath(segment_id)}
                /\ db' = insert_segment(db,
                             SegmentRowOfGroup(segment_id, DayDate, seg_frames[1].ts,
                                               seg_frames[Len(seg_frames)].ts,
                                               VideoPath(segment_id), Len(seg_frames)))
                /\ segCount' = segCount + 1
                /\ UNCHANGED pdFailed
                /\ IF pdIdx = Len(pdSegments)
                   THEN pdPc' = "appsegments" /\ UNCHANGED pdIdx
                   ELSE pdPc' = pdPc /\ pdIdx' = pdIdx + 1
        /\ UNCHANGED <<dayTemp, dayCaptured, pdFrames, pdSegments, pdApps, pdKilled,
                       tempFiles, lastOp, segVars, ocrVars, sweepVars, txnVars>>

\* "for app_id, start_ts, end_ts in appsegments" from interval i on
RECURSIVE InsertAppsegments(_, _, _, _)
InsertAppsegments(d, appsegments, i, count) ==
    IF i > Len(appsegments) THEN d
    ELSE InsertAppsegments(
             insert_appsegment(d,
                 AppSegmentRow(generate_segment_id(count + i), appsegments[i][1],
                               DayDate, appsegments[i][2], appsegments[i][3])),
             appsegments, i + 1, count)

\* the loop that persists the appsegments of the run
DayAppsegments ==
    /\ pdPc = "appsegments"
    /\ db' = InsertAppsegments(db, pdApps, 1, segCount)
    /\ segCount' = segCount + Len(pdApps)
    /\ pdPc' = "cleanup"
    /\ UNCHANGED <<dayTemp, dayCaptured, pdFrames, pdSegments, pdApps, pdIdx, pdKilled,
                   pdFailed, videoFiles, tempFiles, lastOp, segVars, ocrVars, sweepVars, txnVars>>

\* a cleanup that does not wait for the two loops to finish
DayCleanup_early ==
    /\ pdPc \in {"segment", "appsegments", "cleanup"}
    /\ dayTemp' = dayTemp \ Range(pdFrames)
    /\ pdPc' = "completed"
    /\ UNCHANGED <<dayCaptured, pdFrames, pdSegments, pdApps, pdIdx, pdKilled, pdFailed,
                   segVars, ocrVars, storeVars, sweepVars, txnVars>>

\* "if cleanup: cleanup_temp_files(frames, day, logger)": the frames this
\* run loaded are removed, then process_day returns
DayCleanup ==
    /\ pdPc = "cleanup"
    /\ dayTemp' = dayTemp \ Range(pdFrames)
    /\ pdPc' = "completed"
    /\ UNCHANGED <<dayCaptured, pdFrames, pdSegments, pdApps, pdIdx, pdKilled, pdFailed,
                   segVars, ocrVars, storeVars, sweepVars, txnVars>>

\* the process is killed between two units of a run
DayKill ==
    /\ pdPc \in {"segment", "appsegments", "cleanup"}
    /\ pdPc' = "killed"
    /\ pdKilled' = TRUE
    /\ UNCHANGED <<dayTemp, dayCaptured, pdFrames, pdSegments, pdApps, pdIdx, pdFailed,
                   segVars, ocrVars, storeVars, sweepVars, txnVars>>

NextDay ==
    \/ \E app_id \in DayApps : CaptureFrame(app_id)
    \/ DayStart
    \/ \E encoder_fails \in BOOLEAN : DaySegment(encoder_fails)
    \/ DayAppsegments
    \/ DayCleanup
    \/ DayKill

SpecDay == Init /\ [][NextDay]_vars

(***************************************************************************)
(* Specification SpecTxn: the build process, the cleanup process and a     *)
(* reader on one catalog file, one SQL statement at a time.  Each store    *)
(* method runs on a connection of its own (_get_connection).  The sqlite3  *)
(* module opens a transaction before the first INSERT or DELETE of a       *)
(* connection; SQLite gives the write lock to one connection at a time,    *)
(* and in WAL mode a reader sees the last committed catalog.               *)
(***************************************************************************)
\* most ocr_text rows in the catalog
MaxTxnRows == 2

\* the processes that write to the catalog
Conns == {"build", "cleanup"}

\* insert_ocr_text with a commit after each INSERT
insert_ocr_text_autocommit ==
    <<"INSERT ocr_text", "commit", "INSERT ocr_search", "commit">>

\* the statements of insert_ocr_text: two INSERTs, then conn.commit()
insert_ocr_text_statements ==
    <<"INSERT ocr_text", "INSERT ocr_search", "commit">>

\* insert_ocr_batch: executemany on ocr_text, then the TypeError of
\* "cursor.lastrowid - len(ocr_records) + 1"
insert_ocr_batch_statements == <<"executemany ocr_text", "TypeError">>

\* insert_segment: INSERT OR REPLACE, then conn.commit()
insert_segment_statements == <<"INSERT segments", "commit">>

\* delete_segment: DELETE, then conn.commit()
delete_segment_statements == <<"DELETE segments", "commit">>

\* initialize: PRAGMA journal_mode=WAL, CREATE TABLE schema_version, the
\* INSERT OR IGNORE of the version, the other CREATE statements, commit()
initialize_statements ==
    <<"PRAGMA journal_mode=WAL", "CREATE schema_version", "INSERT schema_version",
      "CREATE tables", "commit">>

\* the store methods each process calls
Programs(c) ==
    IF c = "build"
    THEN {initialize_statements, insert_segment_statements,
          insert_ocr_text_statements, insert_ocr_batch_statements}
    ELSE {initialize_statements, delete_segment_statements}

\* the row every call of this specification is about
TxnSegment == SegmentRow(generate_segment_id(1), 1, 1, 1, VideoPath(generate_segment_id(1)))

\* INSERT INTO ocr_text: the row gets the next AUTOINCREMENT id
insert_ocr_text_row(d, frame_path, timestamp, text_content, segment_id) ==
    [d EXCEPT !.ocr_seq = @ + 1,
              !.ocr_text = Append(@, [id |-> d.ocr_seq + 1, frame_path |-> frame_path,
                                      segment_id |-> segment_id,
                                      timestamp |-> timestamp,
                                      text_content |-> text_content])]

\* INSERT INTO ocr_search (rowid, ...) VALUES (cursor.lastrowid, ...)
insert_ocr_search_row(d, timestamp, text_content, segment_id) ==
    [d EXCEPT !.ocr_search = Append(@, [rowid |-> d.ocr_seq,
                                        text_content |-> text_content,
                                        segment_id |-> segment_id,
                                        timestamp |-> timestamp])]

\* the catalog a connection sees after its statement
Execute(statement, d) ==
    CASE statement = "PRAGMA journal_mode=WAL" -> [d EXCEPT !.journal_mode = "wal"]
      [] statement = "CREATE schema_version" -> create_if_not_exists(d, "schema_version")
      [] statement = "INSERT schema_version" -> insert_or_ignore_version(d, SCHEMA_VERSION)
      [] statement = "CREATE tables" -> CreateAll(d, SchemaObjects)
      [] statement = "INSERT ocr_text" ->
             insert_ocr_text_row(d, ImagePath(1), 1, "text", TxnSegment.id)
      [] statement = "INSERT ocr_search" ->
             insert_ocr_search_row(d, 1, "text", TxnSegment.id)
      [] statement = "executemany ocr_text" ->
             executemany_ocr_text(d, <<OcrRecord(ImagePath(1), 1, "text", TxnSegment.id)>>, 1, 0)
      [] statement = "INSERT segments" -> insert_segment(d, TxnSegment)
      [] statement = "DELETE segments" -> delete_segment(d, TxnSegment.id)

\* the table a statement reads or writes
TableOf(statement) ==
    CASE statement \in {"INSERT ocr_text", "executemany ocr_text"} -> "ocr_text"
      [] statement = "INSERT ocr_search" -> "ocr_search"
      [] statement \in {"INSERT segments", "DELETE segments"} -> "segments"
      [] statement = "INSERT schema_version" -> "schema_version"
      [] OTHER -> None

\* sqlite3.OperationalError "no such table"
NoSuchTable(statement, d) ==
    TableOf(statement) # None /\ ~HasTable(d, TableOf(statement))

\* the statements that run outside a transaction: with the default
\* isolation level only INSERT, UPDATE, DELETE and REPLACE open one
Autocommit == {"PRAGMA journal_mode=WAL", "CREATE schema_version"}

\* the statements of a method that are no SQL statement
NoSql == {"commit", "TypeError"}

\* the connections with an open write transaction
Writers == {c \in Conns : cxWork[c] # <<>>}

\* "except Exception" without conn.rollback(), followed by a commit of what
\* the transaction has written
conn_rollback_missing(committed, work) ==
    IF work = <<>> THEN committed ELSE work[1]

\* conn.rollback() and conn.close(): what the open transaction has written
\* is discarded
conn_rollback(committed, work) == committed

\* "with self._get_connection() as conn": a store method is entered
CxCall(c, statements) ==
    /\ cxProg[c] = <<>>
    /\ Len(db.ocr_text) < MaxTxnRows
    /\ cxProg' = [cxProg EXCEPT ![c] = statements]
    /\ cxDone' = [cxDone EXCEPT ![c] = <<>>]
    /\ UNCHANGED <<cxWork, rdSeen, segVars, ocrVars, storeVars, sweepVars, dayVars>>

\* PRAGMA journal_mode=WAL and the first CREATE TABLE IF NOT EXISTS of
\* initialize: no transaction is open, the statement takes effect at once.
\* It needs the write lock when it changes the catalog file.
CxAutocommit(c) ==
    /\ cxProg[c] # <<>>
    /\ Head(cxProg[c]) \in Autocommit
    /\ cxWork[c] = <<>>
    /\ Execute(Head(cxProg[c]), db) # db => Writers = {}
    /\ db' = Execute(Head(cxProg[c]), db)
    /\ cxProg' = [cxProg EXCEPT ![c] = Tail(@)]
    /\ cxDone' = [cxDone EXCEPT ![c] = Append(@, Head(cxProg[c]))]
    /\ UNCHANGED <<cxWork, rdSeen, videoFiles, tempFiles, segCount, lastOp,
                   segVars, ocrVars, sweepVars, dayVars>>

\* cursor.execute / executemany of the next statement of a transaction.
\* The first one of a connection opens its transaction and needs the write
\* lock.
CxExecute(c) ==
    /\ cxProg[c] # <<>>
    /\ Head(cxProg[c]) \notin NoSql \cup Autocommit
    /\ Writers \subseteq {c}
    /\ ~NoSuchTable(Head(cxProg[c]), IF cxWork[c] = <<>> THEN db ELSE cxWork[c][1])
    /\ cxWork' = [cxWork EXCEPT ![c] =
                     <<Execute(Head(cxProg[c]), IF @ = <<>> THEN db ELSE @[1])>>]
    /\ cxProg' = [cxProg EXCEPT ![c] = Tail(@)]
    /\ cxDone' = [cxDone EXCEPT ![c] = Append(@, Head(cxProg[c]))]
    /\ UNCHANGED <<rdSeen, segVars, ocrVars, storeVars, sweepVars, dayVars>>

\* the write lock is held by another connection until the busy timeout
\* expires: the statement raises OperationalError, "database is locked"
CxLocked(c) ==
    /\ cxProg[c] # <<>>
    /\ Head(cxProg[c]) \notin NoSql
    /\ ~(Writers \subseteq {c})
    /\ Head(cxProg[c]) \in Autocommit => Execute(Head(cxProg[c]), db) # db
    /\ db' = conn_rollback(db, cxWork[c])
    /\ cxWork' = [cxWork EXCEPT ![c] = <<>>]
    /\ cxProg' = [cxProg EXCEPT ![c] = <<>>]
    /\ cxDone' = [cxDone EXCEPT ![c] = Append(@, "raised")]
    /\ UNCHANGED <<rdSeen, videoFiles, tempFiles, segCount, lastOp,
                   segVars, ocrVars, sweepVars, dayVars>>

\* "except Exception: conn.rollback(); raise" and "finally: conn.close()":
\* a statement of the method raises, here the TypeError of insert_ocr_batch,
\* "no such table" or another error of the statement to come
CxRaise(c) ==
    /\ cxProg[c] # <<>>
    /\ db' = conn_rollback(db, cxWork[c])
    /\ cxWork' = [cxWork EXCEPT ![c] = <<>>]
    /\ cxProg' = [cxProg EXCEPT ![c] = <<>>]
    /\ cxDone' = [cxDone EXCEPT ![c] = Append(@, "raised")]
    /\ UNCHANGED <<rdSeen, videoFiles, tempFiles, segCount, lastOp,
                   segVars, ocrVars, sweepVars, dayVars>>

\* conn.commit(): what the transaction wrote becomes the catalog
CxCommit(c) ==
    /\ cxProg[c] # <<>>
    /\ Head(cxProg[c]) = "commit"
    /\ db' = IF cxWork[c] = <<>> THEN db ELSE cxWork[c][1]
    /\ cxWork' = [cxWork EXCEPT ![c] = <<>>]
    /\ cxProg' = [cxProg EXCEPT ![c] = Tail(@)]
    /\ cxDone' = [cxDone EXCEPT ![c] = Append(@, "commit")]
    /\ UNCHANGED <<rdSeen, videoFiles, tempFiles, segCount, lastOp,
                   segVars, ocrVars, sweepVars, dayVars>>

\* a read-only connection runs its SELECT
Read ==
    /\ rdSeen' = db
    /\ UNCHANGED <<cxProg, cxWork, cxDone, segVars, ocrVars, storeVars, sweepVars, dayVars>>

InitTxn ==
    /\ frames = <<>>
    /\ maxFrames = 0
    /\ SegIdle
    /\ OcrIdle
    /\ db \in {EmptyDb, Returned(initialize(EmptyDb))}
    /\ videoFiles = {}
    /\ tempFiles = {}
    /\ segCount = 0
    /\ lastOp = OpRecord("none", None, FALSE)
    /\ SweepIdle
    /\ DayIdle
    /\ cxProg = [c \in Conns |-> <<>>]
    /\ cxWork = [c \in Conns |-> <<>>]
    /\ cxDone = [c \in Conns |-> <<>>]
    /\ rdSeen = db

NextTxn ==
    \/ \E c \in Conns : \E statements \in Programs(c) : CxCall(c, statements)
    \/ \E c \in Conns : CxAutocommit(c)
    \/ \E c \in Conns : CxExecute(c)
    \/ \E c \in Conns : CxLocked(c)
    \/ \E c \in Conns : CxRaise(c)
    \/ \E c \in Conns : CxCommit(c)
    \/ Read

SpecTxn == InitTxn /\ [][NextTxn]_vars

(***************************************************************************)
(* Specification SpecOcr: one perform_ocr_batch call                       *)
(***************************************************************************)
InitOcr ==
    /\ frames = <<>>
    /\ maxFrames = 0
    /\ SegIdle
    /\ ocrPaths \in {[i \in 1..n |-> ImagePath(i)] : n \in 0..MaxPaths}
    /\ numWorkers \in {ClampWorkers(n, c) : n \in 0..MaxWorkers, c \in 1..MaxWorkers}
    /\ taskQ = <<>>
    /\ resultQ = <<>>
    /\ wState = [w \in Workers |-> "new"]
    /\ wTask = [w \in Workers |-> NoPath]
    /\ oPc = "start"
    /\ oIdx = 1
    /\ ocrResults = <<>>
    /\ StoreIdle
    /\ SweepIdle
    /\ DayIdle
    /\ TxnIdle

NextOcr ==
    \/ ReturnEmpty
    \/ StartWorkers
    \/ SubmitTask
    \/ SendStop
    \/ CollectResult
    \/ CollectTimeout
    \/ JoinExited
    \/ JoinTerminate
    \/ \E w \in Workers :
          \/ WorkerGetTask(w)
          \/ WorkerGetStop(w)
          \/ WorkerPutResult(w)

SpecOcr == InitOcr /\ [][NextOcr]_vars

\* the steps of the orchestrator.  Every wait of it is bounded
\* (result_queue.get(timeout=timeout + 5.0), worker.join(timeout=10.0)), so
\* it always takes its next step; a worker may stay in perform_ocr_sync or
\* in its loop for ever.
Orchestrator ==
    \/ ReturnEmpty
    \/ StartWorkers
    \/ SubmitTask
    \/ SendStop
    \/ CollectResult
    \/ CollectTimeout
    \/ JoinExited
    \/ JoinTerminate

\* every step of the orchestrator changes its position <<oPc, oIdx>>
SpecOcrLive == SpecOcr /\ WF_<<oPc, oIdx>>(Orchestrator)

(***************************************************************************)
(* Specification SpecGroup: group_frames_by_count on every bounded input   *)
(***************************************************************************)
InitGroup ==
    /\ \E n \in 0..MaxFrames : frames \in GroupInputs(n)
    /\ maxFrames \in (-1)..MaxPer
    /\ SegIdle
    /\ OcrIdle
    /\ StoreIdle
    /\ SweepIdle
    /\ DayIdle
    /\ TxnIdle

GroupFrames ==
    /\ segPc = "start"
    /\ groups' = group_frames_by_count(frames, maxFrames)
    /\ segPc' = "grouped"
    /\ UNCHANGED <<frames, maxFrames, appsegs, ocrVars, storeVars, sweepVars, dayVars, txnVars>>

NextGroup == GroupFrames

SpecGroup == InitGroup /\ [][NextGroup]_vars

(***************************************************************************)
(* Specification SpecApp: build_appsegments_for_day on every bounded input *)
(***************************************************************************)
InitApp ==
    /\ \E n \in 0..MaxAppFrames : frames \in AppInputs(n)
    /\ maxFrames = 0
    /\ SegIdle
    /\ OcrIdle
    /\ StoreIdle
    /\ SweepIdle
    /\ DayIdle
    /\ TxnIdle

BuildAppsegments ==
    /\ segPc = "start"
    /\ appsegs' = build_appsegments_for_day(frames)
    /\ segPc' = "built"
    /\ UNCHANGED <<frames, maxFrames, groups, ocrVars, storeVars, sweepVars, dayVars, txnVars>>

NextApp == BuildAppsegments

SpecApp == InitApp /\ [][NextApp]_vars

(***************************************************************************)
(* Claims about the segmentation engine (SpecGroup)                        *)
(***************************************************************************)
RECURSIVE Concat(_)
Concat(ss) == IF ss = <<>> THEN <<>> ELSE Head(ss) \o Concat(Tail(ss))

\* C1 (as stated): whatever max_frames_per_segment is, all frames of a
\* returned group have one and the same (width, height).
C1_SingleResolution ==
    segPc = "grouped" =>
        \A g \in 1..Len(groups) : \A i, j \in 1..Len(groups[g]) :
            frame_size(groups[g][i]) = frame_size(groups[g][j])

\* C2: for max_frames_per_segment > 0 every group has between 1 and
\* max_frames_per_segment frames, and a group that is not full is the last
\* group or is followed by a frame of another (width, height).
C2_SizeBound ==
    (segPc = "grouped" /\ maxFrames > 0) =>
        \A g \in 1..Len(groups) :
            /\ Len(groups[g]) >= 1
            /\ Len(groups[g]) <= maxFrames
            /\ Len(groups[g]) < maxFrames =>
                  \/ g = Len(groups)
                  \/ frame_size(groups[g + 1][1]) # frame_size(groups[g][1])

\* a short group cut by a resolution change, followed by a full group
C2_Witness ==
    /\ segPc = "grouped"
    /\ maxFrames = 2
    /\ Len(groups) >= 2
    /\ Len(groups[1]) = 1
    /\ Len(groups[2]) = 2

\* C3: the groups, concatenated in order, are exactly the input list (the
\* frames carry distinct paths, so none is dropped or repeated), and no
\* group is empty.
C3_Partition ==
    segPc = "grouped" =>
        /\ Concat(groups) = frames
        /\ \A g \in 1..Len(groups) : groups[g] # <<>>

C3_Witness ==
    /\ segPc = "grouped"
    /\ Len(frames) >= 3
    /\ Len(groups) >= 2
    /\ maxFrames > 0

(***************************************************************************)
(* Claims about the attribution interval builder (SpecApp)                 *)
(***************************************************************************)
\* number of adjacent frame pairs whose app_id differs
Switches(fs) == Cardinality({i \in 1..(Len(fs) - 1) : fs[i].app_id # fs[i + 1].app_id})

NoAdjacentSameApp ==
    \A k \in 1..(Len(appsegs) - 1) : appsegs[k][1] # appsegs[k + 1][1]

\* C4 (as stated): for a non-empty sorted frame list the intervals start at
\* the first timestamp, end at the last one, and each interval starts
\* exactly where the previous one ends.
C4_Contiguous ==
    (segPc = "built" /\ frames # <<>> /\ SortedByTs(frames)) =>
        /\ appsegs # <<>>
        /\ appsegs[1][2] = frames[1].ts
        /\ appsegs[Len(appsegs)][3] = frames[Len(frames)].ts
        /\ \A k \in 1..(Len(appsegs) - 1) : appsegs[k + 1][2] = appsegs[k][3]

\* C5 (as stated): for every frame list, empty or not, no two consecutive
\* intervals carry the same app_id and there are 1 + Switches intervals.
C5_Original ==
    segPc = "built" =>
        /\ NoAdjacentSameApp
        /\ Len(appsegs) = 1 + Switches(frames)

\* C5 (amended): no two consecutive intervals carry the same app_id, None
\* included; every frame with app_id None lies in an interval with app_id
\* None; a non-empty list yields 1 + Switches intervals and the empty list
\* yields none.
C5_Maximal ==
    segPc = "built" =>
        /\ NoAdjacentSameApp
        /\ \A i \in 1..Len(frames) :
              frames[i].app_id = None =>
                  \E k \in 1..Len(appsegs) :
                      /\ appsegs[k][1] = None
                      /\ appsegs[k][2] <= frames[i].ts
                      /\ frames[i].ts <= appsegs[k][3]
        /\ frames # <<>> => Len(appsegs) = 1 + Switches(frames)
        /\ frames = <<>> => appsegs = <<>>

\* a run of two None frames between two known apps
C5_Witness ==
    /\ segPc = "built"
    /\ Len(frames) = 4
    /\ frames[1].app_id = "a"
    /\ frames[2].app_id = None
    /\ frames[3].app_id = None
    /\ frames[4].app_id = "b"
    /\ Len(appsegs) = 3
    /\ appsegs[2][1] = None

(***************************************************************************)
(* Claims about the OCR worker pool (SpecOcr)                              *)
(***************************************************************************)
\* C6 (as stated): perform_ocr_batch on N paths returns exactly N results
\* and the i-th result belongs to the i-th input path.
C6_BatchComplete ==
    oPc = "done" =>
        /\ Len(ocrResults) = Len(ocrPaths)
        /\ \A i \in 1..Len(ocrResults) : ocrResults[i].frame_path = ocrPaths[i]

(***************************************************************************)
(* Claims about the retention engine (SpecRet)                             *)
(***************************************************************************)
\* the retention window of a policy in days, as the claims state it
WindowDays(policy) ==
    CASE policy = "1_day" -> 1
      [] policy = "1_week" -> 7
      [] policy = "1_month" -> 30

Expired(row, policy) == row.start_ts < NowTs - WindowDays(policy)

KeepUnexpired(rows, policy) == SelectSeq(rows, LAMBDA r : ~Expired(r, policy))

\* the step is a recording sweep that deletes, and no item of it failed
CleanRecordingSweep ==
    /\ lastOp'.op = "cleanup_old_recordings"
    /\ lastOp'.policy \in {"1_day", "1_week", "1_month"}
    /\ ~lastOp'.dry_run
    /\ ~lastOp'.failed

\* C7: a recording sweep with policy 1_day, 1_week or 1_month in which no
\* item fails removes the row and the video file of exactly the segments
\* with start_ts < now - 1, 7 or 30 days; every segment at or after the
\* cutoff keeps its row and its file unchanged.
C7_SweepCutoff ==
    [][CleanRecordingSweep =>
          /\ db'.segments = KeepUnexpired(db.segments, lastOp'.policy)
          /\ videoFiles' = videoFiles \
                 {r.video_path : r \in {x \in Range(db.segments) : Expired(x, lastOp'.policy)}}
      ]_vars

\* a 1_week sweep has deleted the 10-day-old segment and kept the
\* 1-day-old one with its file
C7_Witness ==
    /\ lastOp.op = "cleanup_old_recordings"
    /\ lastOp.policy = "1_week"
    /\ ~lastOp.dry_run
    /\ ~lastOp.failed
    /\ lastOp.count = 1
    /\ segCount = 2
    /\ Len(db.segments) = 1
    /\ db.segments[1].start_ts = NowTs - 1
    /\ videoFiles = {db.segments[1].video_path}

\* the segment rows whose video file is not on disk
Orphans == {r \in Range(db.segments) : r.video_path \notin videoFiles}

\* an orphan reconciliation that deletes has returned normally
ReconciliationReturned ==
    /\ lastOp.op = "cleanup_orphaned_segments"
    /\ ~lastOp.dry_run
    /\ ~lastOp.raised

\* C8 (as stated): a segment row whose video file was removed out of band
\* is deleted by orphan reconciliation, and by no other operation.
C8_OnlyReconciliation ==
    /\ [](ReconciliationReturned => Orphans = {})
    /\ [][\A r \in Orphans :
              r \notin Range(db'.segments) => lastOp'.op = "cleanup_orphaned_segments"]_vars

\* C8 (amended): a segment row whose video file was removed out of band is
\* deleted by orphan reconciliation; otherwise it is deleted only by a
\* recording sweep that is not a dry run, under a policy other than never
\* and when the row's start_ts is before that policy's cutoff.  Temp sweep,
\* vacuum and ingestion never delete it.
C8_ReconciliationOrExpiry ==
    /\ [](ReconciliationReturned => Orphans = {})
    /\ [][\A r \in Orphans :
              r \notin Range(db'.segments) =>
                  \/ lastOp'.op = "cleanup_orphaned_segments" /\ ~lastOp'.dry_run
                  \/ /\ lastOp'.op = "cleanup_old_recordings"
                     /\ ~lastOp'.dry_run
                     /\ lastOp'.policy \in {"1_day", "1_week", "1_month"}
                     /\ Expired(r, lastOp'.policy)]_vars

\* reconciliation has deleted one orphan row and kept the row whose file
\* is on disk
C8_Witness ==
    /\ ReconciliationReturned
    /\ lastOp.count = 1
    /\ segCount = 2
    /\ Len(db.segments) = 1
    /\ db.segments[1].video_path \in videoFiles

(***************************************************************************)
(* Claims about the metadata store (Spec)                                  *)
(***************************************************************************)
Ids(rows) == {rows[i].id : i \in 1..Len(rows)}

IdOf(optional_row) == IF optional_row = <<>> THEN None ELSE optional_row[1].id

RowsWithId(rows, id) == {r \in Range(rows) : r.id = id}

\* no query of the store returns a row with this id
Unreachable(d, id) ==
    /\ ~segment_exists(d, id)
    /\ id \notin Ids(get_all_segments(d))
    /\ \A date \in Dates : id \notin Ids(get_segments_by_date(d, date))
    /\ \A d1, d2 \in Dates : id \notin Ids(get_segments_by_date_range(d, d1, d2))
    /\ \A t \in 0..(MaxTs + 1) :
          /\ IdOf(find_segment_at_timestamp(d, t)) # id
          /\ IdOf(find_nearest_segment_forward(d, t)) # id
          /\ IdOf(find_nearest_segment_backward(d, t)) # id
    /\ \A cutoff \in (0..(MaxTs + 1)) \cup {Infinity} :
          \A k \in 1..Len(get_old_segments(d, cutoff)) :
              get_old_segments(d, cutoff)[k][1] # id

\* C9: after delete_segment(id) the row is returned by no query, and the
\* step leaves every other segment row as it was.
C9_DeletionPhysical ==
    /\ [](lastOp.op = "delete_segment" => Unreachable(db, lastOp.id))
    /\ [][lastOp'.op = "delete_segment" =>
            \A other \in SegIds \ {lastOp'.id} :
                RowsWithId(db'.segments, other) = RowsWithId(db.segments, other)]_vars

\* a delete that removed a row which the queries returned, another row stays
C9_Witness ==
    /\ lastOp.op = "delete_segment"
    /\ lastOp.count = 1
    /\ Len(db.segments) = 1
    /\ db.segments[1].id # lastOp.id

\* C10: once initialize has run, however often, there is exactly one
\* schema_version row and each table and index exists once; initialize
\* never raises; an initialize step leaves the segment, appsegment and
\* OCR rows as they were.
C10_InitIdempotent ==
    /\ [](db.objects # <<>> =>
            /\ Len(db.schema_version) = 1
            /\ db.schema_version[1].version = SCHEMA_VERSION
            /\ Range(db.objects) = {"schema_version"} \cup Range(SchemaObjects)
            /\ Len(db.objects) = Cardinality(Range(db.objects)))
    /\ [](lastOp.op = "initialize" => ~lastOp.raised /\ db.objects # <<>>)
    /\ [][lastOp'.op = "initialize" =>
            /\ db'.segments = db.segments
            /\ db'.appsegments = db.appsegments
            /\ db'.ocr_text = db.ocr_text
            /\ db'.ocr_search = db.ocr_search]_vars

\* initialize run again on a store that holds rows of the three kinds
C10_Witness ==
    /\ lastOp.op = "initialize"
    /\ db.segments # <<>>
    /\ db.appsegments # <<>>
    /\ db.ocr_text # <<>>


(***************************************************************************)
(* Claims about the point queries (Spec)                                   *)
(***************************************************************************)
\* the timestamps the point queries are asked about: every stored
\* timestamp, one before them all and one after them all
QueryTimestamps == 0..(MaxTs + 1)

Containing(T) == {r \in Range(db.segments) : r.start_ts <= T /\ T <= r.end_ts}

StartingAtOrAfter(T) == {r \in Range(db.segments) : r.start_ts >= T}

EndedAtOrBefore(T) == {r \in Range(db.segments) : r.end_ts <= T}

\* res is none when candidates is empty, else one of the candidates with
\* the smallest start_ts
SmallestStartOf(res, candidates) ==
    IF candidates = {} THEN res = <<>>
    ELSE /\ res # <<>>
         /\ res[1] \in candidates
         /\ \A r \in candidates : res[1].start_ts <= r.start_ts

LargestStartOf(res, candidates) ==
    IF candidates = {} THEN res = <<>>
    ELSE /\ res # <<>>
         /\ res[1] \in candidates
         /\ \A r \in candidates : res[1].start_ts >= r.start_ts

\* C11: for every catalog content and every T, find_segment_at_timestamp(T)
\* returns a segment iff some segment has start_ts <= T <= end_ts, and then
\* the one with the smallest start_ts among those.
C11_AtTimestamp ==
    \A T \in QueryTimestamps :
        SmallestStartOf(find_segment_at_timestamp(db, T), Containing(T))

\* two segments contain 2, the later inserted one starts first and is
\* returned; 2 is its inclusive centre, 1 and 3 its inclusive ends
C11_Witness ==
    /\ Len(db.segments) = 2
    /\ db.segments[1].start_ts = 2 /\ db.segments[1].end_ts = 2
    /\ db.segments[2].start_ts = 1 /\ db.segments[2].end_ts = 3
    /\ find_segment_at_timestamp(db, 2) = <<db.segments[2]>>
    /\ find_segment_at_timestamp(db, 3) = <<db.segments[2]>>
    /\ find_segment_at_timestamp(db, 0) = <<>>

\* C12: for every catalog content and every T,
\* find_nearest_segment_forward(T) returns the segment with the smallest
\* start_ts among those with start_ts >= T, none when there is none.
C12_NearestForward ==
    \A T \in QueryTimestamps :
        SmallestStartOf(find_nearest_segment_forward(db, T), StartingAtOrAfter(T))

C12_Witness ==
    /\ Len(db.segments) = 2
    /\ db.segments[1].start_ts = 3
    /\ db.segments[2].start_ts = 2
    /\ find_nearest_segment_forward(db, 2) = <<db.segments[2]>>
    /\ find_nearest_segment_forward(db, 3) = <<db.segments[1]>>
    /\ find_nearest_segment_forward(db, MaxTs + 1) = <<>>

\* C13: for every catalog content and every T,
\* find_nearest_segment_backward(T) returns the segment with the largest
\* start_ts among those with end_ts <= T, none when there is none.
C13_NearestBackward ==
    \A T \in QueryTimestamps :
        LargestStartOf(find_nearest_segment_backward(db, T), EndedAtOrBefore(T))

C13_Witness ==
    /\ Len(db.segments) = 2
    /\ db.segments[1].start_ts = 2 /\ db.segments[1].end_ts = 2
    /\ db.segments[2].start_ts = 1 /\ db.segments[2].end_ts = 1
    /\ find_nearest_segment_backward(db, 3) = <<db.segments[1]>>
    /\ find_nearest_segment_backward(db, 1) = <<db.segments[2]>>
    /\ find_nearest_segment_backward(db, 0) = <<>>

\* the catalog holds one segment and T is strictly inside it
StrictlyInsideOnly(T) ==
    /\ Len(db.segments) = 1
    /\ db.segments[1].start_ts < T
    /\ T < db.segments[1].end_ts

\* C14 (as stated): for T strictly inside the only segment S,
\* find_nearest_segment_forward(T) returns S and
\* find_nearest_segment_backward(T) does not.
C14_ForwardReturnsEnclosing ==
    \A T \in QueryTimestamps :
        StrictlyInsideOnly(T) =>
            /\ find_nearest_segment_forward(db, T) = <<db.segments[1]>>
            /\ find_nearest_segment_backward(db, T) # <<db.segments[1]>>

\* C14 (amended): for T strictly inside the only segment S, neither
\* find_nearest_segment_forward(T) nor find_nearest_segment_backward(T)
\* returns S: both return none, while find_segment_at_timestamp(T) returns S.
C14_NeitherReturnsEnclosing ==
    \A T \in QueryTimestamps :
        StrictlyInsideOnly(T) =>
            /\ find_nearest_segment_forward(db, T) = <<>>
            /\ find_nearest_segment_backward(db, T) = <<>>
            /\ find_segment_at_timestamp(db, T) = <<db.segments[1]>>

C14_Witness ==
    /\ StrictlyInsideOnly(2)
    /\ find_nearest_segment_forward(db, 2) = <<>>
    /\ find_nearest_segment_backward(db, 2) = <<>>


(***************************************************************************)
(* Claims about the upserts (Spec)                                         *)
(***************************************************************************)
OneRowPerId(rows) ==
    \A i, j \in 1..Len(rows) : rows[i].id = rows[j].id => i = j

\* the rows of a table whose id is not the given one
RowsOfOthers(rows, id) == {r \in Range(rows) : r.id # id}

\* insert_segment called on the catalog d stores exactly the given values
\* under the id, leaves every other row of both tables as it was, and
\* called again with the same values leaves the rows as they are
SegmentUpsert(d, row) ==
    LET d1 == insert_segment(d, row)
        d2 == insert_segment(d1, row)
    IN  /\ RowsWithId(d1.segments, row.id) = {row}
        /\ OneRowPerId(d1.segments)
        /\ RowsOfOthers(d1.segments, row.id) = RowsOfOthers(d.segments, row.id)
        /\ d1.appsegments = d.appsegments
        /\ Range(d2.segments) = Range(d1.segments)
        /\ Len(d2.segments) = Len(d1.segments)
        /\ d2.appsegments = d1.appsegments

AppsegmentUpsert(d, row) ==
    LET d1 == insert_appsegment(d, row)
        d2 == insert_appsegment(d1, row)
    IN  /\ RowsWithId(d1.appsegments, row.id) = {row}
        /\ OneRowPerId(d1.appsegments)
        /\ RowsOfOthers(d1.appsegments, row.id) = RowsOfOthers(d.appsegments, row.id)
        /\ d1.segments = d.segments
        /\ Range(d2.appsegments) = Range(d1.appsegments)
        /\ Len(d2.appsegments) = Len(d1.appsegments)
        /\ d2.segments = d1.segments

\* C15: after any sequence of insert_segment and insert_appsegment calls
\* each table holds at most one row per id, the row of an id carries the
\* values of the most recent insert for that id (an insert stores its values
\* and changes no row of another id), and an insert that repeats the stored
\* values leaves the rows of the catalog unchanged.
C15_Upsert ==
    /\ OneRowPerId(db.segments)
    /\ OneRowPerId(db.appsegments)
    /\ \A id \in SegIds, date \in Dates, start_ts \in Timestamps, end_ts \in Timestamps :
           SegmentUpsert(db, SegmentRow(id, date, start_ts, end_ts, VideoPath(id)))
    /\ \A id \in {"a1", "a2"}, app_id \in {None, "a"} :
           AppsegmentUpsert(db, AppSegmentRow(id, app_id, 1, 1, 2))

\* insert_segment has replaced the row of an id while another segment and
\* an appsegment are stored
C15_Witness ==
    /\ lastOp.op = "insert_segment"
    /\ lastOp.count = 1
    /\ Len(db.segments) = 2
    /\ db.segments[2].id = lastOp.id
    /\ db.appsegments # <<>>


(***************************************************************************)
(* Claims about insert_ocr_batch (Spec)                                    *)
(***************************************************************************)
\* the rows of ocr_text and ocr_search added after the first n
AddedText(d, n) == SubSeq(d.ocr_text, n + 1, Len(d.ocr_text))
AddedSearch(d, n) == SubSeq(d.ocr_search, n + 1, Len(d.ocr_search))

\* the text rows carry the records in order, and search entry i has the
\* rowid and the text of text row i
BatchStored(text, search, ocr_records) ==
    /\ Len(text) = Len(ocr_records)
    /\ Len(search) = Len(ocr_records)
    /\ \A i \in 1..Len(ocr_records) :
           /\ text[i].text_content = ocr_records[i].text_content
           /\ text[i].frame_path = ocr_records[i].frame_path
           /\ search[i].rowid = text[i].id
           /\ search[i].text_content = text[i].text_content

\* C16 (as stated): insert_ocr_batch with N >= 1 records, none of whose
\* statements fails, returns N and adds exactly N text rows and for each a
\* search entry with the row's id and text, whatever was inserted before;
\* with an empty list it returns 0 and leaves the store unchanged.
C16_BatchInserted ==
    [][lastOp'.op = "insert_ocr_batch" =>
          \A ocr_records \in Batches :
              InsertOcrBatch(ocr_records, 0) =>
                  /\ ~lastOp'.raised
                  /\ lastOp'.count = Len(ocr_records)
                  /\ SubSeq(db'.ocr_text, 1, Len(db.ocr_text)) = db.ocr_text
                  /\ SubSeq(db'.ocr_search, 1, Len(db.ocr_search)) = db.ocr_search
                  /\ BatchStored(AddedText(db', Len(db.ocr_text)),
                                 AddedSearch(db', Len(db.ocr_search)), ocr_records)
      ]_vars

\* C17: insert_ocr_batch is all-or-nothing: when it fails, whether in a
\* text-table insert or in the row-id computation, the text table and the
\* search index are as before the call and the caller gets the error; a
\* failing statement always makes the call fail.
C17_BatchAllOrNothing ==
    [][lastOp'.op = "insert_ocr_batch" =>
          /\ lastOp'.raised =>
                 /\ db'.ocr_text = db.ocr_text
                 /\ db'.ocr_search = db.ocr_search
                 /\ lastOp'.count = 0
          /\ \A ocr_records \in Batches : \A fail_at \in 1..Len(ocr_records) :
                 InsertOcrBatch(ocr_records, fail_at) => lastOp'.raised
      ]_vars

\* a batch has failed on a catalog that already holds a text row and its
\* search entry
C17_Witness ==
    /\ lastOp.op = "insert_ocr_batch"
    /\ lastOp.raised
    /\ Len(db.ocr_text) = 1
    /\ Len(db.ocr_search) = 1


(***************************************************************************)
(* Claim about the cascade from segments to OCR text (Spec)                *)
(***************************************************************************)
\* C18 (as stated): after delete_segment(id) has deleted the segment no
\* ocr_text row with segment_id = id remains, get_ocr_by_segment(id) is
\* empty and search_ocr_text returns no row of that segment.
C18_CascadeToOcr ==
    lastOp.op = "delete_segment" /\ lastOp.count = 1 =>
        /\ \A r \in Range(db.ocr_text) : r.segment_id # lastOp.id
        /\ get_ocr_by_segment(db, lastOp.id) = <<>>
        /\ \A r \in Range(search_ocr_text(db, "text")) : r.segment_id # lastOp.id


(***************************************************************************)
(* Claim about the order of deletion in the recording sweep (SpecSweep)    *)
(***************************************************************************)
\* the segment ids process_day has generated so far
GeneratedIds == {generate_segment_id(k) : k \in 1..segCount}

\* C19: in every state during a recording sweep, the state left by a kill
\* of the sweep at any statement included, every candidate segment whose
\* catalog row has been deleted has no video file on disk; so does every
\* segment that ever was in the catalog.
C19_FileBeforeRow ==
    /\ \A i \in 1..Len(swItems) :
           ~segment_exists(db, swItems[i][1]) => swItems[i][2] \notin videoFiles
    /\ \A id \in GeneratedIds :
           ~segment_exists(db, id) => VideoPath(id) \notin videoFiles

\* the sweep was killed after it had deleted the file and the row of its
\* first candidate and the file, not yet the row, of its second
C19_Witness ==
    /\ swPc = "crashed"
    /\ ~swDryRun
    /\ Len(swItems) = 2
    /\ swIdx = 2
    /\ swCount = 1
    /\ ~segment_exists(db, swItems[1][1])
    /\ segment_exists(db, swItems[2][1])
    /\ videoFiles = {}


(***************************************************************************)
(* C20: an item whose deletion failed is not counted and stays a candidate *)
(***************************************************************************)
\* the segment ids get_old_segments returns
OldSegmentIds(d, cutoff_ts) ==
    {get_old_segments(d, cutoff_ts)[i][1] :
        i \in 1..Len(get_old_segments(d, cutoff_ts))}

\* C20: when full_path.unlink() or db.delete_segment() fails for one item of
\* a recording sweep, or file_path.unlink() fails for one file of a temp
\* sweep, the returned count is the number of candidates less that item,
\* and after the sweep the item is again a candidate under the same policy:
\* its row is returned by get_old_segments, or its file is still in temp/
\* and older than the cutoff.
C20_FailedStaysCandidate ==
    \A policy \in Policies :
        LET cutoff_ts == calculate_cutoff_timestamp(policy) IN
        /\ \A fail \in UnlinkFailures(policy) \cup DeleteFailures(policy) :
               LET r == cleanup_old_recordings(db, videoFiles, policy, FALSE, fail) IN
               /\ r.failed
               /\ r.count = Len(get_old_segments(db, cutoff_ts)) - 1
               /\ r.count = Len(db.segments) - Len(r.db.segments)
               /\ fail[2] \in OldSegmentIds(r.db, cutoff_ts)
        /\ \A fail \in TempFailures(policy) :
               LET r == TempLoop(tempFiles, policy, FALSE, fail) IN
               /\ r.failed
               /\ r.count = Cardinality(cleanup_temp_files(tempFiles, policy)) - 1
               /\ r.count = Cardinality(tempFiles) - Cardinality(r.temp)
               /\ \E f \in cleanup_temp_files(r.temp, policy) : f.name = fail[2]

\* a sweep that deleted and counted one segment and failed on another,
\* whose row is still returned by get_old_segments under the same policy
C20_Witness ==
    /\ lastOp.op = "cleanup_old_recordings"
    /\ lastOp.failed
    /\ lastOp.count = 1
    /\ Len(db.segments) = 1
    /\ OldSegmentIds(db, calculate_cutoff_timestamp(lastOp.policy)) # {}


(***************************************************************************)
(* C21: a failure on one item does not abort the batch                     *)
(***************************************************************************)
\* the items of a recording sweep or of a temp sweep other than the failed
\* one are deleted in the same run
C21_CaughtSweepsContinue ==
    \A policy \in Policies :
        LET cutoff_ts == calculate_cutoff_timestamp(policy) IN
        /\ \A fail \in UnlinkFailures(policy) \cup DeleteFailures(policy) :
               LET r == cleanup_old_recordings(db, videoFiles, policy, FALSE, fail) IN
               \A id \in OldSegmentIds(db, cutoff_ts) \ {fail[2]} :
                   ~segment_exists(r.db, id) /\ VideoPath(id) \notin r.files
        /\ \A fail \in TempFailures(policy) :
               LET r == TempLoop(tempFiles, policy, FALSE, fail) IN
               \A f \in cleanup_temp_files(tempFiles, policy) :
                   f.name # fail[2] => f \notin r.temp

\* a temp sweep in which one unlink failed and another file was deleted
C21_SweepWitness ==
    /\ lastOp.op = "cleanup_temp_files"
    /\ lastOp.failed
    /\ lastOp.count = 1

\* C21: in the temp sweep, the recording sweep and orphan reconciliation,
\* when the deletion of one item fails, every other item of the batch is
\* still deleted in the same run.
C21_BatchContinues ==
    /\ C21_CaughtSweepsContinue
    /\ \A fail \in OrphanFailures :
           LET r == cleanup_orphaned_segments(db, videoFiles, FALSE, fail) IN
           \A o \in Orphans : o.id # fail[2] => ~segment_exists(r.db, o.id)


(***************************************************************************)
(* C22: a dry run performs no mutation                                     *)
(***************************************************************************)
\* the catalog file exists
CatalogExists(d) == d.objects # <<>>

\* a dry run of any action leaves the capture tree, the artifact tree and
\* the rows of the catalog as they are
C22_DryRunKeepsFilesAndRows ==
    /\ \A policy \in Policies :
           /\ TempLoop(tempFiles, policy, TRUE, NoFailure).temp = tempFiles
           /\ LET r == cleanup_old_recordings(db, videoFiles, policy, TRUE, NoFailure) IN
              /\ r.files = videoFiles
              /\ r.db.segments = db.segments
              /\ r.db.appsegments = db.appsegments
              /\ r.db.ocr_text = db.ocr_text
              /\ r.db.ocr_search = db.ocr_search
    /\ LET r == cleanup_orphaned_segments(db, videoFiles, TRUE, NoFailure) IN
       /\ r.files = videoFiles
       /\ r.db.segments = db.segments
       /\ r.db.appsegments = db.appsegments
       /\ r.db.ocr_text = db.ocr_text
       /\ r.db.ocr_search = db.ocr_search
    /\ main_vacuum(db, TRUE) = db

\* a dry run of the recording sweep has returned with candidates counted
\* and every row and file still there
C22_DryRunWitness ==
    /\ lastOp.op = "cleanup_old_recordings"
    /\ lastOp.dry_run
    /\ lastOp.count = 2
    /\ Len(db.segments) = 2

\* C22: with the dry-run flag set, the temp sweep, the recording sweep,
\* orphan reconciliation and the vacuum step leave the capture tree, the
\* artifact tree and the catalog, the existence of the catalog file
\* included, as they were before the run.
C22_DryRunNoMutation ==
    /\ C22_DryRunKeepsFilesAndRows
    /\ \A policy \in Policies :
           CatalogExists(cleanup_old_recordings(db, videoFiles, policy, TRUE, NoFailure).db)
               = CatalogExists(db)
    /\ CatalogExists(cleanup_orphaned_segments(db, videoFiles, TRUE, NoFailure).db)
           = CatalogExists(db)
    /\ CatalogExists(main_vacuum(db, TRUE)) = CatalogExists(db)

(***************************************************************************)
(* C23: a dry run reports the counts of a real run                         *)
(***************************************************************************)
\* the actions main can be asked to run: temp files (--auto, --policy or
\* --temp-policy), recordings (--auto, --policy or --recording-policy),
\* orphaned segments (--orphaned)
MainActions == {"temp", "recordings", "orphaned"}

\* main from "Clean up temp files" on: the selected actions run one after
\* the other on the same data directory, each on what the one before it
\* left, and each count is printed
main(d, files, temp, selected, temp_policy, recording_policy, dry_run) ==
    LET t == IF "temp" \in selected
             THEN TempLoop(temp, temp_policy, dry_run, NoFailure)
             ELSE [temp |-> temp, count |-> 0, failed |-> FALSE]
        r == IF "recordings" \in selected
             THEN cleanup_old_recordings(d, files, recording_policy, dry_run, NoFailure)
             ELSE [db |-> d, files |-> files, count |-> 0, failed |-> FALSE]
        o == IF "orphaned" \in selected
             THEN cleanup_orphaned_segments(r.db, r.files, dry_run, NoFailure)
             ELSE [db |-> r.db, files |-> r.files, count |-> 0, raised |-> FALSE]
    IN  [db |-> o.db, files |-> o.files, temp |-> t.temp,
         temp_deleted |-> t.count,
         recordings_deleted |-> r.count,
         orphaned_count |-> o.count]

\* the three counts main prints
Counts(m) == <<m.temp_deleted, m.recordings_deleted, m.orphaned_count>>

\* with one action selected, the dry run and the real run report the same
\* count, also for segments whose file is already absent
C23_SingleActionCounts ==
    \A action \in MainActions, temp_policy \in Policies, recording_policy \in Policies :
        Counts(main(db, videoFiles, tempFiles, {action}, temp_policy, recording_policy, TRUE))
            = Counts(main(db, videoFiles, tempFiles, {action}, temp_policy, recording_policy, FALSE))

\* C23: from every state of the capture tree, the artifact tree and the
\* catalog, and for every combination of selected actions and policies,
\* the counts a dry run reports for the temp sweep, the recording sweep
\* and orphan reconciliation equal the counts of a real run from the same
\* state.
C23_DryRunCounts ==
    \A selected \in SUBSET MainActions, temp_policy \in Policies, recording_policy \in Policies :
        Counts(main(db, videoFiles, tempFiles, selected, temp_policy, recording_policy, TRUE))
            = Counts(main(db, videoFiles, tempFiles, selected, temp_policy, recording_policy, FALSE))

(***************************************************************************)
(* C24: policy never skips the temp sweep and the recording sweep          *)
(***************************************************************************)
\* C24: the cutoff computed for never is +infinity, so every raw capture
\* file and every segment is older than it; yet with policy never the temp
\* sweep and the recording sweep, dry run or not, delete no raw capture
\* file, no video file and no catalog row, and return a count of 0.
C24_NeverSkips ==
    LET cutoff_ts == calculate_cutoff_timestamp("never") IN
    /\ cutoff_ts = Infinity
    /\ \A f \in tempFiles : file_ts(f) < cutoff_ts
    /\ Len(get_old_segments(db, cutoff_ts)) = Len(db.segments)
    /\ \A dry_run \in BOOLEAN :
           /\ TempLoop(tempFiles, "never", dry_run, NoFailure)
                  = [temp |-> tempFiles, count |-> 0, failed |-> FALSE]
           /\ cleanup_old_recordings(db, videoFiles, "never", dry_run, NoFailure)
                  = [db |-> db, files |-> videoFiles, count |-> 0, failed |-> FALSE]

\* a recording sweep with policy never has returned 0 while the archive
\* holds a 40 days old segment with its file and temp/ holds a raw capture
C24_Witness ==
    /\ lastOp.op = "cleanup_old_recordings"
    /\ lastOp.policy = "never"
    /\ ~lastOp.dry_run
    /\ lastOp.count = 0
    /\ tempFiles # {}
    /\ \E r \in Range(db.segments) :
           r.start_ts = NowTs - 40 /\ r.video_path \in videoFiles

(***************************************************************************)
(* Claims about process_day (SpecDay)                                      *)
(***************************************************************************)
\* the catalog holds a Segment row for the frame group seg_frames
HasSegmentRow(d, seg_frames) ==
    \E r \in Range(d.segments) :
        /\ r.start_ts = seg_frames[1].ts
        /\ r.end_ts = seg_frames[Len(seg_frames)].ts
        /\ r.video_path \in videoFiles

\* C25: when the encoder has failed for one segment group of the day, only
\* that group has no segment: every other group of the run's day-batch is
\* encoded and has its catalog row when the run ends.
C25_OnlyFailedAborted ==
    pdPc = "failed" =>
        \A i \in 1..Len(pdSegments) :
            i # pdIdx => HasSegmentRow(db, pdSegments[i])

\* the Segment rows whose [start_ts, end_ts] contains the frame captured at ts
SegmentsContaining(d, ts) ==
    {r \in Range(d.segments) : r.start_ts <= ts /\ ts <= r.end_ts}

\* C26: when a run of process_day was killed between two segment units
\* and a later run for the same day has completed, no frame of the day is
\* contained in more than one Segment row of the catalog.
C26_RerunProcessesPending ==
    (pdPc = "completed" /\ pdKilled) =>
        \A ts \in 1..dayCaptured : Cardinality(SegmentsContaining(db, ts)) <= 1

\* the AppSegment rows of the day, sorted by start_ts
DayAppsegmentRows(d) ==
    LET OfDay(r) == r.date = DayDate IN OrderByStart(SelectSeq(d.appsegments, OfDay))

\* every run of the day so far ran to completion
OnlyCompletedRuns == pdPc = "completed" /\ ~pdKilled /\ ~pdFailed

\* each row starts exactly where the row before it ends
C27_GapFree ==
    OnlyCompletedRuns =>
        LET rows == DayAppsegmentRows(db) IN
        \A k \in 1..(Len(rows) - 1) : rows[k + 1].start_ts = rows[k].end_ts

\* no two adjacent rows carry the same app_id
C27_NoAdjacentSameApp ==
    OnlyCompletedRuns =>
        LET rows == DayAppsegmentRows(db) IN
        \A k \in 1..(Len(rows) - 1) : rows[k + 1].app_id # rows[k].app_id

\* C27: after any sequence of completed process_day runs for one date,
\* the AppSegment rows of that date, sorted by start_ts, are gap-free and
\* non-overlapping (each starts where the one before it ends) and no two
\* adjacent rows share the same app_id.
C27_AppSegmentsOfDay ==
    OnlyCompletedRuns =>
        LET rows == DayAppsegmentRows(db) IN
        \A k \in 1..(Len(rows) - 1) :
            /\ rows[k].end_ts <= rows[k + 1].start_ts
            /\ rows[k + 1].start_ts = rows[k].end_ts
            /\ rows[k + 1].app_id # rows[k].app_id

(***************************************************************************)
(* Claims about concurrent access to the catalog (SpecTxn)                 *)
(***************************************************************************)
\* every ocr_text row has its search-index entry and the other way round
OcrIndexed(d) ==
    /\ \A i \in 1..Len(d.ocr_text) :
           \E j \in 1..Len(d.ocr_search) : d.ocr_search[j].rowid = d.ocr_text[i].id
    /\ \A j \in 1..Len(d.ocr_search) :
           \E i \in 1..Len(d.ocr_text) : d.ocr_text[i].id = d.ocr_search[j].rowid

\* C28: with the build process, the cleanup process and a reader working
\* on one catalog, at most one write transaction is open at any time, and
\* neither the committed catalog nor what a reader saw holds part of a
\* transaction: an ocr_text row without its search-index entry.
C28_OneWriterNoPartialRead ==
    /\ Cardinality(Writers) <= 1
    /\ OcrIndexed(db)
    /\ OcrIndexed(rdSeen)

\* the build process is between the two INSERTs of insert_ocr_text, the
\* cleanup process has entered delete_segment, and the reader has read a
\* catalog with a committed OCR row
C28_Witness ==
    /\ cxWork["build"] # <<>>
    /\ ~OcrIndexed(cxWork["build"][1])
    /\ cxProg["cleanup"] = delete_segment_statements
    /\ rdSeen = db
    /\ Len(rdSeen.ocr_text) = 1

(***************************************************************************)
(* Claims about failing statements inside a connection (SpecTxn)           *)
(***************************************************************************)
\* get_schema_version: the newest version row, "0.0" when the table is
\* missing (OperationalError) or empty
get_schema_version(d) ==
    IF ~HasTable(d, "schema_version") \/ d.schema_version = <<>> THEN "0.0"
    ELSE d.schema_version[Len(d.schema_version)].version

\* what the store methods can tell about a catalog: its rows, the next
\* AUTOINCREMENT id, the schema version and the tables other than
\* schema_version.  No method reads the journal mode, and an empty
\* schema_version table reads like a missing one.
Observable(d) ==
    [tables |-> Range(d.objects) \ {"schema_version"},
     schema_version |-> get_schema_version(d),
     segments |-> d.segments, appsegments |-> d.appsegments,
     ocr_text |-> d.ocr_text, ocr_search |-> d.ocr_search, ocr_seq |-> d.ocr_seq]

\* the current or last call of the process raised
CallRaised(c) == cxDone[c] # <<>> /\ cxDone[c][Len(cxDone[c])] = "raised"

\* C29: when a statement inside a store connection raises, the step that
\* handles the exception leaves the committed catalog as it was (nothing the
\* open transaction wrote is visible), discards the transaction and closes
\* the connection, and the call is recorded as raised; a call that raised
\* has committed nothing, and no step other than a commit changes what a
\* later store operation can tell about the catalog.
C29_RaiseRollsBack ==
    /\ [](\A c \in Conns :
             CallRaised(c) =>
                 /\ cxProg[c] = <<>>
                 /\ cxWork[c] = <<>>
                 /\ "commit" \notin Range(cxDone[c]))
    /\ [][/\ \A c \in Conns :
                 cxDone'[c] = Append(cxDone[c], "raised") =>
                     /\ db' = db
                     /\ cxWork'[c] = <<>>
                     /\ cxProg'[c] = <<>>
          /\ (\A c \in Conns : cxDone'[c] # Append(cxDone[c], "commit")) =>
                 Observable(db') = Observable(db)]_vars

\* insert_ocr_text raised after its first INSERT had written a row, the
\* catalog holds no OCR row, and the cleanup process has since committed a
\* delete_segment
C29_Witness ==
    /\ CallRaised("build")
    /\ "INSERT ocr_text" \in Range(cxDone["build"])
    /\ HasTable(db, "ocr_text")
    /\ db.ocr_text = <<>>
    /\ cxDone["cleanup"] = <<"DELETE segments", "commit">>

(***************************************************************************)
(* Claims about process_ocr_for_frames (Spec)                              *)
(***************************************************************************)
\* the successful results with non-blank text
TextResults(ocr_results) ==
    {i \in 1..Len(ocr_results) :
        ocr_results[i].success /\ strip(ocr_results[i].text) # ""}

\* the rows of the text table past its first n
NewOcrRows(d, n) == SubSeq(d.ocr_text, n + 1, Len(d.ocr_text))

\* the part of C30 about what is never inserted: no row process_ocr_for_frames
\* adds has blank text or belongs to a frame whose result failed or was blank
C30_NoBlankOrFailedRecord ==
    oPc = "results" =>
        LET r == process_ocr_for_frames(db, frames, ocrResults, generate_segment_id(1))
            rows == NewOcrRows(r.db, Len(db.ocr_text))
        IN  \A k \in 1..Len(rows) :
                /\ strip(rows[k].text_content) # ""
                /\ \E i \in TextResults(ocrResults) : rows[k].frame_path = ImagePath(i)

\* C30 (as stated): process_ocr_for_frames inserts no record with blank
\* text and none for a failed result, and the number of records it inserts,
\* which it returns, equals the number of successful results with non-blank
\* text.
C30_InsertsTextResults ==
    /\ C30_NoBlankOrFailedRecord
    /\ oPc = "results" =>
           LET r == process_ocr_for_frames(db, frames, ocrResults, generate_segment_id(1))
           IN  /\ r.inserted = Cardinality(TextResults(ocrResults))
               /\ Len(r.db.ocr_text) =
                      Len(db.ocr_text) + Cardinality(TextResults(ocrResults))


RowPosition(d, id) == CHOOSE i \in 1..Len(d.segments) : d.segments[i].id = id

\* the rows ascend in start_ts, and rows with equal start_ts are in the order
\* in which they were inserted
AscendingByInsertion(d, rows) ==
    \A i, j \in 1..Len(rows) :
        i < j =>
            \/ rows[i].start_ts < rows[j].start_ts
            \/ /\ rows[i].start_ts = rows[j].start_ts
               /\ RowPosition(d, rows[i].id) < RowPosition(d, rows[j].id)

\* the part of C32 about get_all_segments and get_segments_by_date
C32_AllAndByDateOrdered ==
    /\ AscendingByInsertion(db, get_all_segments(db))
    /\ \A date \in Dates : AscendingByInsertion(db, get_segments_by_date(db, date))

\* C32 (as stated): get_all_segments, get_segments_by_date and
\* get_segments_by_date_range return their rows in ascending start_ts order,
\* rows with equal start_ts in the order in which they were inserted, after
\* any sequence of inserts, re-inserts and deletes.
C32_QueriesOrdered ==
    /\ C32_AllAndByDateOrdered
    /\ \A d1, d2 \in Dates :
           AscendingByInsertion(db, get_segments_by_date_range(db, d1, d2))

(***************************************************************************)
(* Claims about what process_day leaves in place (SpecDay)                 *)
(***************************************************************************)
\* every row of the catalog before is a row of the catalog after
RowsKept(before, after) ==
    /\ Range(before.segments) \subseteq Range(after.segments)
    /\ Range(before.appsegments) \subseteq Range(after.appsegments)
    /\ Range(before.ocr_text) \subseteq Range(after.ocr_text)
    /\ Range(before.ocr_search) \subseteq Range(after.ocr_search)

FrameText(frame_path) ==
    <<"text 1", "text 2", "text 3", "text 4", "text 5", "text 6">>[frame_path[2]]

\* the OCRResult perform_ocr_sync returns for a path: the recognized text
\* of that frame, or the empty text of a failed result
ResultWithText(result) ==
    OCRResultWithText(result.frame_path, result.success,
                      IF result.success THEN FrameText(result.frame_path) ELSE "")

\* C34 (as stated): every OCR record process_ocr_for_frames builds from
\* the results of perform_ocr_batch and hands to the store carries the text
\* extracted from the frame whose frame_path and timestamp it stores, for
\* every worker count, interleaving and pattern of timeouts.
C34_TextOfOwnFrame ==
    oPc = "done" =>
        LET ocr_records ==
                build_ocr_records(OcrFrames(Len(ocrPaths)),
                                  [i \in 1..Len(ocrResults) |-> ResultWithText(ocrResults[i])],
                                  generate_segment_id(1))
        IN  \A k \in 1..Len(ocr_records) :
                ocr_records[k].text_content = FrameText(ocr_records[k].frame_path)

(***************************************************************************)
(* Claims about the task and result queues of perform_ocr_batch (SpecOcr)  *)
(***************************************************************************)
\* how often the path occurs on the task queue, and how many sentinels do
PathsOnQueue(image_path) == Cardinality({i \in 1..Len(taskQ) : image_path = taskQ[i]})
SentinelsOnQueue == Cardinality({i \in 1..Len(taskQ) : taskQ[i] = None})

\* how many results for the path are on the result queue or collected
ResultsFor(image_path) ==
    Cardinality({i \in 1..Len(resultQ) : resultQ[i].frame_path = image_path})
    + Cardinality({i \in 1..Len(ocrResults) : ocrResults[i].frame_path = image_path})

\* the path ocrPaths[i] has been put on the task queue
Submitted(i) ==
    \/ oPc = "submit" /\ i < oIdx
    \/ oPc \in {"stop", "collect", "join", "done"}

\* how many sentinels the orchestrator has put on the task queue
SentinelsSent ==
    IF oPc = "stop" THEN oIdx - 1
    ELSE IF oPc \in {"collect", "join", "done"} /\ ocrPaths # <<>> THEN numWorkers
    ELSE 0

C36_AlwaysReturns ==
    /\ <>(oPc = "done")
    /\ [](oPc = "done" /\ ocrPaths # <<>> =>
             \A w \in Workers : wState[w] \in {"exited", "terminated"})

\* the batch has returned although a worker never delivered the result of
\* the path it took and never exited: it was terminated
C36_Witness ==
    /\ oPc = "done"
    /\ \E w \in Workers : wState[w] = "terminated" /\ wTask[w] # NoPath
    /\ Len(ocrResults) < Len(ocrPaths)

(***************************************************************************)
(* Claims about the cleanup of the raw capture files (SpecDay)             *)
(***************************************************************************)
\* the catalog holds an AppSegment row for the interval
HasAppsegmentRow(d, interval) ==
    \E r \in Range(d.appsegments) :
        /\ r.app_id = interval[1]
        /\ r.start_ts = interval[2]
        /\ r.end_ts = interval[3]

\* every segment group of the run is encoded and cataloged and every
\* AppSegment of the run is inserted
RunCataloged ==
    /\ \A i \in 1..Len(pdSegments) : HasSegmentRow(db, pdSegments[i])
    /\ \A k \in 1..Len(pdApps) : HasAppsegmentRow(db, pdApps[k])

\* C37: a step of process_day removes raw capture files only when every
\* segment group of the run is encoded and cataloged and every AppSegment
\* of the run is inserted; while a run is in its loops, after it has failed
\* and after it was killed, every frame it loaded is still in the day's
\* directory.
C37_CleanupLast ==
    /\ [](pdPc \in {"segment", "appsegments", "cleanup", "failed", "killed"} =>
             Range(pdFrames) \subseteq dayTemp)
    /\ [][~(dayTemp \subseteq dayTemp') => RunCataloged]_vars

\* a run has completed and removed its frames after an earlier run of the
\* day had failed on the encoder; a frame captured during the run remains
C37_Witness ==
    /\ pdPc = "completed"
    /\ pdFailed
    /\ pdFrames # <<>>
    /\ Range(pdFrames) \cap dayTemp = {}
    /\ dayTemp # {}

(***************************************************************************)
(* Claims about the Segment rows process_day writes (SpecDay)              *)
(***************************************************************************)
\* C38: the Segment row a step of process_day writes has start_ts equal to
\* the timestamp of the first frame of its group, end_ts equal to that of
\* the last frame, start_ts <= end_ts and frame_count equal to the group
\* size, which is positive; and it does not overlap the row the run wrote
\* before it: that row's end_ts is <= its start_ts.
C38_SegmentRowsOfRun ==
    [][Len(db'.segments) > Len(db.segments) =>
          LET row == db'.segments[Len(db'.segments)]
              seg_frames == pdSegments[pdIdx]
          IN  /\ row.start_ts = seg_frames[1].ts
              /\ row.end_ts = seg_frames[Len(seg_frames)].ts
              /\ row.start_ts <= row.end_ts
              /\ row.frame_count = Len(seg_frames)
              /\ row.frame_count > 0
              /\ pdIdx > 1 => db.segments[Len(db.segments)].end_ts <= row.start_ts
      ]_vars

\* a run has written a segment of two frames and after it a segment of one
C38_Witness ==
    /\ pdPc = "appsegments"
    /\ Len(pdSegments) = 2
    /\ Len(db.segments) >= 2
    /\ db.segments[Len(db.segments) - 1].frame_count = 2
    /\ db.segments[Len(db.segments)].frame_count = 1
    /\ db.segments[Len(db.segments) - 1].start_ts < db.segments[Len(db.segments) - 1].end_ts

(***************************************************************************)
(* Claims about the search index and the text table (SpecIndex)            *)
(***************************************************************************)
\* the ids of the text table and the rowids of the search index
OcrTextIds(d) == {d.ocr_text[i].id : i \in 1..Len(d.ocr_text)}
OcrSearchRowids(d) == {d.ocr_search[j].rowid : j \in 1..Len(d.ocr_search)}

\* the part of C39 that the inserts and delete_segment keep: every row of
\* the text table has its entry in the search index
C39_TextRowsIndexed == OcrTextIds(db) \subseteq OcrSearchRowids(db)

\* C39 (as stated): after any sequence of insert_ocr_text,
\* insert_ocr_batch, delete_ocr_by_segment and delete_segment, the rowids
\* in the search index are the ids in the text table: no index entry
\* survives the deletion of its text row.
C39_IndexMatchesText == OcrSearchRowids(db) = OcrTextIds(db)

(***************************************************************************)
(* C40: what a temp sweep deletes and what it leaves                       *)
(***************************************************************************)
\* the step is a temp sweep that is not a dry run, with a policy other
\* than never
RealTempSweepStep ==
    /\ lastOp'.op = "cleanup_temp_files"
    /\ ~lastOp'.dry_run
    /\ lastOp'.policy # "never"
    /\ \/ lastOp' # lastOp
       \/ tempFiles' # tempFiles

\* creation time, modification time when the file has no creation time
CreationTime(f) == IF f.has_birthtime THEN f.st_birthtime ELSE f.st_mtime

\* the non-hidden files of temp whose creation time is strictly older
\* than the cutoff of policy
StrictlyOlder(temp, policy) ==
    {f \in temp : /\ f.name \notin HiddenNames
                  /\ CreationTime(f) < calculate_cutoff_timestamp(policy)}

\* C40: a temp sweep that is not a dry run, with policy P other than never,
\* deletes only non-hidden files whose creation time (modification time when
\* the file has none) is strictly older than the cutoff of P, and all of them
\* when no unlink raises; every hidden file and every file at or after the
\* cutoff stays; the video files and the catalog are unchanged.
C40_TempSweepEffect ==
    [][RealTempSweepStep =>
           LET P == lastOp'.policy IN
           /\ tempFiles' \subseteq tempFiles
           /\ (tempFiles \ tempFiles') \subseteq StrictlyOlder(tempFiles, P)
           /\ ~lastOp'.failed => tempFiles \ tempFiles' = StrictlyOlder(tempFiles, P)
           /\ lastOp'.count = Cardinality(tempFiles \ tempFiles')
           /\ \A f \in tempFiles :
                  (f.name \in HiddenNames
                   \/ CreationTime(f) >= calculate_cutoff_timestamp(P)) => f \in tempFiles'
           /\ videoFiles' = videoFiles
           /\ db' = db]_vars

\* a sweep with policy 1_day has deleted one file without a failure and
\* left a hidden file older than the cutoff, a file created exactly at the
\* cutoff and modified before it, and the catalog row and video file of a
\* segment older than the cutoff
C40_Witness ==
    /\ lastOp.op = "cleanup_temp_files"
    /\ ~lastOp.dry_run
    /\ lastOp.policy = "1_day"
    /\ lastOp.count = 1
    /\ ~lastOp.failed
    /\ \E f \in tempFiles :
           f.name \in HiddenNames /\ CreationTime(f) < calculate_cutoff_timestamp("1_day")
    /\ \E f \in tempFiles :
           /\ f.name \notin HiddenNames
           /\ f.has_birthtime
           /\ f.st_birthtime = calculate_cutoff_timestamp("1_day")
           /\ f.st_mtime < f.st_birthtime
    /\ \E r \in Range(db.segments) :
           r.start_ts < calculate_cutoff_timestamp("1_day") /\ r.video_path \in videoFiles
=============================================================================
